---- MODULE Spec2Model ----
(***************************************************************************)
(* A model of anvill's basic block lifter (lib/Lifters/BasicBlockLifter):  *)
(* the decode loop of one block, the control-flow overrides applied to    *)
(* it, the successor dispatch of a block function, and the packing of     *)
(* live values.                                                            *)
(***************************************************************************)
EXTENDS Integers, Sequences, FiniteSets, TLC

\* ------------------------------------------------------------------------
\* Bounds of the model.
\* ------------------------------------------------------------------------

\* Largest block size (bytes) drawn for block_def.size.
MaxSize == 2

\* The architecture's maximum instruction length, MaxInstructionSize(context).
MaxInstSize == 2

\* ------------------------------------------------------------------------
\* Inputs of one block lift.
\* ------------------------------------------------------------------------

\* Start addresses drawn for block_def.addr.
BlockAddrs == {1}

\* Addresses the ByteProvider knows; every other address is unavailable.
MemAddrs == 0 .. (MaxSize + MaxInstSize + 4)

ByteAvailability == {"kUnknown", "kUnavailable", "kAvailable"}

BytePermission == {"kUnknown", "kReadable", "kReadableWritable",
                   "kReadableExecutable", "kReadableWritableExecutable"}

GoodCell == [byte |-> 0, accessible |-> "kAvailable",
             perms |-> "kReadableExecutable"]

UnmappedCell == [byte |-> 0, accessible |-> "kUnavailable",
                 perms |-> "kUnknown"]

\* The other answers drawn for one address of a block lift: an unavailable
\* byte, and a byte whose value sets op to 1.
OtherCells ==
  {[byte |-> 0, accessible |-> "kUnavailable", perms |-> "kUnknown"],
   [byte |-> 64, accessible |-> "kAvailable",
    perms |-> "kReadableWritableExecutable"]}

\* The addresses whose answer varies: the second and third byte of the block.
VaryAddrs == {a + 1 : a \in BlockAddrs} \cup {a + 2 : a \in BlockAddrs}

AllGood == [a \in MemAddrs |-> GoodCell]

\* The memories drawn: every byte readable, executable and zero, or exactly
\* one address answering otherwise.
Memories ==
  {AllGood} \cup {[AllGood EXCEPT ![a] = c] : a \in VaryAddrs, c \in OtherCells}

\* memory_provider.Query(addr)
Query(mem, a) == IF a \in DOMAIN mem THEN mem[a] ELSE UnmappedCell

\* The control-flow overrides a ControlFlowProvider may return.
\* target_address of a Call override is absent or the one address drawn.
CallTargets == {9}

NoOverride == [kind |-> "monostate", stop |-> FALSE, has_target |-> FALSE,
               target_address |-> 0]

Overrides ==
  {NoOverride}
  \cup {[kind |-> "Call", stop |-> s, has_target |-> TRUE,
         target_address |-> t] : s \in BOOLEAN, t \in CallTargets}
  \cup {[kind |-> "Call", stop |-> s, has_target |-> FALSE,
         target_address |-> 0] : s \in BOOLEAN}
  \cup {[kind |-> k, stop |-> FALSE, has_target |-> FALSE,
         target_address |-> 0] : k \in {"Return", "Jump"}}
  \cup {[kind |-> "Misc", stop |-> s, has_target |-> FALSE,
         target_address |-> 0] : s \in BOOLEAN}

\* ------------------------------------------------------------------------
\* State.
\* ------------------------------------------------------------------------

VARIABLES
  block_def,          \* the CodeBlock being lifted: [addr, size]
  is_sparc,           \* CodeLifter::is_sparc
  memory,             \* the ByteProvider's answers
  arch_max_inst_size, \* options.arch->MaxInstructionSize(context) of this block
  max_inst_size,      \* the function-local static of DecodeInstructionInto; 0 = not yet initialised
  pc_,                \* position in LiftInstructionsIntoLiftedFunction
  reached_addr,
  ended_on_terminal,
  decode_failed,      \* the loop returned at line 356
  inst,               \* remill::Instruction inst
  lifted_func,        \* the IR blocks of lifted_func, each a sequence of IR operations
  bb,                 \* index of the IR block instructions are appended to
  return_pc,          \* value the lifted semantics left in RETURN_PC (-1: unknown)
  decoded,            \* the instructions decoded so far, in order
  applied,            \* the overrides queried so far, with what applying each did
  type_hints,         \* decl.type_hints: [target_addr, hint], sorted by target_addr
  context_assignments, \* block_def.context_assignments: key -> value
  init_context,       \* the local init_context of line 342
  contexts            \* per decode attempt: the context passed, and the one
                      \* the decoder says follows the instruction

liftVars == <<block_def, is_sparc, memory, arch_max_inst_size, max_inst_size,
              pc_, reached_addr, ended_on_terminal, decode_failed, inst,
              lifted_func, bb, return_pc, decoded, applied, type_hints,
              context_assignments, init_context, contexts>>

\* The blocks of one function and their lifters.
VARIABLES
  cfg,          \* decl.cfg: uid -> CodeBlock [uid, addr, outgoing_edges]
  bb_lifters,   \* the FunctionLifter's cache: uid -> position in lifters
  lifters,      \* every BasicBlockLifter constructed, in order
  functions,    \* the functions of the semantics module, in order of creation
  cur,          \* uid of the block whose LiftBasicBlockFunction runs (0: none)
  todo,         \* outgoing edges the loop of lines 637-654 has yet to visit
  switches,     \* uid -> the dispatch switch of its block function
  lifted,       \* uids whose LiftBasicBlockFunction has returned
  last_override, \* uid -> the override of the block's last instruction
  block_contexts, \* uid -> what the block's BasicBlockContext holds
  bodies        \* uid -> the entry block of its block function

fnVars == <<cfg, bb_lifters, lifters, functions, cur, todo, switches, lifted,
            last_override, block_contexts, bodies>>

\* The live values packed and unpacked through a block function's pointers.
VARIABLES
  decls,        \* the list of BasicBlockVariables given to Pack/UnpackLiveValues
  slots,        \* what the pointer provider's pointers point to, one per variable
  state_regs,   \* the registers of the State structure
  pack_pc,      \* "start", "unpacked", "packed", "repacked"
  aborted       \* a CHECK failed

packVars == <<decls, slots, state_regs, pack_pc, aborted>>

\* Calls of DecodeInstructionInto and of DoInterProceduralControlFlow looked
\* at on their own, one after the other in one process.
VARIABLES
  calls,        \* number of calls made so far
  context_max,  \* options.arch->MaxInstructionSize(context) of the last call
  inst_bytes,   \* inst_out->bytes handed to the decoder by the last call
  queried,      \* number of memory_provider.Query calls of the last call
  result        \* what the last call returned

probeVars == <<calls, context_max, inst_bytes, queried, result>>

\* One run of an emitted block function: its entry block up to the call of
\* lifted_func, the call, and the exit.
VARIABLES
  run_block,          \* block_def of the block function that runs: [addr]
  stack_offsets,      \* GetStackOffsetsAtEntry().affine_equalities
  live_at_entry,      \* LiveBBParamsAtEntry()
  entry_args,         \* what the pointer arguments of the function point to
  constants_at_entry, \* GetConstantsAtEntry()
  live_at_exit,       \* LiveBBParamsAtExit()
  run_override,       \* the override of the block's instruction, and whether
                      \* the instruction is conditional
  run_lifted,         \* the IR blocks of the lifted function the call runs
  run_taken,          \* BRANCH_TAKEN when the lifted function ran
  run_switch,         \* the dispatch switch of the block function
  run_state,          \* the registers of the State structure
  run_should_return,  \* the alloca should_return
  run_next_pc,        \* the alloca next_pc
  run_pc,             \* "idle", "start", "initialized", "called", "noreturn", "left"
  run_exit            \* how the function left: "return", "successor", ...

runVars == <<run_block, stack_offsets, live_at_entry, entry_args,
             constants_at_entry, live_at_exit, run_override, run_lifted,
             run_taken, run_switch, run_state,
             run_should_return, run_next_pc, run_pc, run_exit>>

\* The names of the functions declared in one semantics module.
VARIABLES
  named         \* per declared block function: its triple, its name, and the
                \* name of its lowlift function once created

nameVars == <<named>>

\* Two functions lifted by two threads of one process, each by its own
\* lifters into its own module. The function-local static max_inst_size of
\* DecodeInstructionInto is the one variable of liftVars they both use.
VARIABLES
  thread_block,       \* thread -> the block_def its lifter lifts
  thread_context_max, \* thread -> MaxInstructionSize of its decoding context
  thread_reached_addr, \* thread -> reached_addr of its lifter
  thread_decoded,     \* thread -> the byte lengths decoded, 0 for a failure
  thread_pc           \* thread -> "loop" or "done"

threadVars == <<thread_block, thread_context_max, thread_reached_addr,
                thread_decoded, thread_pc>>

\* A TypeProvider and the last call of its three-argument
\* TryGetCalledFunctionType.
VARIABLES
  type_provider, \* its class, and the maps of the Specification it reads
  tp_query,      \* the arguments of the last call
  tp_result      \* what the last call returned

providerVars == <<type_provider, tp_query, tp_result>>

\* The decode loop of one block with reached_addr as the 64-bit word it is
\* in the code, scaled down to AddrBits bits.
VARIABLES
  loop_block,             \* addr, size of the block_def
  loop_reached_addr,      \* reached_addr
  loop_ended_on_terminal, \* ended_on_terminal
  loop_iterations,        \* iterations of the while loop run so far
  loop_pc                 \* "loop" in LiftInstructionsIntoLiftedFunction,
                          \* "done" after it

loopVars == <<loop_block, loop_reached_addr, loop_ended_on_terminal,
              loop_iterations, loop_pc>>

\* One call of LoadFunctionReturnAddress, on a build whose ABI lays the bit
\* fields of Format0a out in one of the two orders.
VARIABLES
  marker_sparc,   \* is_sparc
  marker_layout,  \* the order in which the build allocates bit fields
  marker_memory,  \* what the ByteProvider answers at the four addresses
  marker_result   \* the pair returned, and the number of Query calls made

markerVars == <<marker_sparc, marker_layout, marker_memory, marker_result>>

\* The FunctionDecl whose blocks are lifted.
VARIABLES
  in_scope_variables \* number of decl.in_scope_variables

declVars == <<in_scope_variables>>

\* One call of CallBasicBlockFunction.
VARIABLES
  bb_params,       \* block_context->GetParams()
  bb_live_at_entry, \* positions in bb_params of LiveBBParamsAtEntry()
  maximum_depth,   \* decl.maximum_depth
  call_result      \* what the call did

callVars == <<bb_params, bb_live_at_entry, maximum_depth, call_result>>

\* The Specification values of a program and their last comparison.
VARIABLES
  spec_handles,  \* every Specification value: the SpecificationImpl it points to
  spec_impls,    \* number of SpecificationImpl objects made
  spec_compared  \* the operands and the results of the last comparison

cmpVars == <<spec_handles, spec_impls, spec_compared>>

\* A function given to ConvertAddressesToEntityUses.
VARIABLES
  fn_is_declaration, \* function.isDeclaration()
  fn_insts,          \* its instructions, in block and instruction order
  entity_addrs,      \* addresses at which xref_resolver has an entity
  pass_out           \* what the call made returned and left behind

passVars == <<fn_is_declaration, fn_insts, entity_addrs, pass_out>>

\* A module given to CodeQualityStatCollector, and the statistics.
VARIABLES
  mod_insts,     \* the instructions of the module's functions, in order
  mod_globals,   \* the symbolic stack pointer and program counter globals
  stats,         \* the ALWAYS_ENABLED_STATISTIC counters
  collector_out  \* what the last run returned, and the counters before it

statVars == <<mod_insts, mod_globals, stats, collector_out>>

\* A Bound of the jump table analysis and one comparison made with it.
VARIABLES
  isSigned,    \* Bound::isSigned
  cmp_lhs,     \* the bits of lhs
  cmp_rhs,     \* the bits of rhs
  cmp_result   \* what lessThanOrEqual returned

boundVars == <<isSigned, cmp_lhs, cmp_rhs, cmp_result>>

vars == <<liftVars, fnVars, packVars, probeVars, runVars, nameVars, threadVars, providerVars, loopVars, markerVars, declVars, callVars, cmpVars, passVars, statVars, boundVars>>

\* ------------------------------------------------------------------------
\* IR operations.
\* ------------------------------------------------------------------------

\* A value known only when the lifted code runs.
Unknown == 0 - 1

\* A value passed as an argument: an argument of the enclosing function, a
\* constant, or a value loaded from a variable of the block.
ArgValue(kind, of, v) == [kind |-> kind, of |-> of, v |-> v]

\* The argument array of an operation that is no call of a block function
\* or of an intrinsic with the three block arguments.
NoArgs ==
  [state |-> ArgValue("none", "", Unknown),
   pc |-> ArgValue("none", "", Unknown),
   memory |-> ArgValue("none", "", Unknown)]

\* An IR operation: what it is, what it writes or calls, where its operand
\* comes from, the operand's value (a branch's target), a conditional
\* branch's other target, a call's noreturn attribute and a call's
\* arguments, by argument number.
Op(o, d, s, v) ==
  [op |-> o, dst |-> d, src |-> s, v |-> v, w |-> 0, noreturn |-> FALSE,
   args |-> NoArgs]

AppendOp(f, b, o) == [f EXCEPT ![b] = Append(@, o)]

\* llvm::BasicBlock::Create(context, "", func): the function with one more,
\* empty, block.
CreateBlock(f) == Append(f, <<>>)

Terminators == {"br", "condbr", "ret", "error_tail"}

IsTerminated(blk) == Len(blk) > 0 /\ blk[Len(blk)].op \in Terminators

\* remill::AddTerminatingTailCall(block, intrinsics.error, intrinsics)
AddTerminatingTailCall(f, b) == AppendOp(f, b, Op("error_tail", "error", "", 0))

\* ------------------------------------------------------------------------
\* DecodeInstructionInto.
\* ------------------------------------------------------------------------

\* A slip: a byte of unknown availability is pushed.
accumulate_inst_byte_UnknownPushed(cell) ==
  /\ cell.accessible # "kUnavailable"
  /\ cell.perms \in {"kUnknown", "kReadableExecutable",
                     "kReadableWritableExecutable"}

\* accumulate_inst_byte: whether the byte is pushed.
accumulate_inst_byte(cell) ==
  /\ cell.accessible \notin {"kUnknown", "kUnavailable"}
  /\ cell.perms \in {"kUnknown", "kReadableExecutable",
                     "kReadableWritableExecutable"}

\* The loop of lines 285-289: the bytes pushed into inst_out->bytes.
RECURSIVE AccumulateBytes(_, _, _, _)
AccumulateBytes(mem, addr, i, limit) ==
  IF i >= limit \/ ~accumulate_inst_byte(Query(mem, addr + i))
  THEN <<>>
  ELSE <<Query(mem, addr + i).byte>> \o AccumulateBytes(mem, addr, i + 1, limit)

\* Line 260: the function-local static is initialised by the first call of
\* the process, from that call's context, and read by every later call.
StaticMaxInstSize(static, ctx_max) == IF static = 0 THEN ctx_max ELSE static

\* Number of memory_provider.Query calls of the loop of lines 285-289.
QueryCount(mem, addr, limit) ==
  LET pushed == Len(AccumulateBytes(mem, addr, 0, limit))
  IN IF pushed < limit THEN pushed + 1 ELSE limit

\* What the architecture's decoder may answer for a byte buffer: a failure,
\* or an instruction of 1..Len(bytes) bytes that is conditional or not and
\* whose semantics save a return address (a call) or not.
DecodeInstruction(addr, bytes) ==
  {[ok |-> FALSE, pc |-> addr, len |-> 0, cond |-> FALSE, iscall |-> FALSE,
    branch_not_taken_pc |-> addr]}
  \cup {[ok |-> TRUE, pc |-> addr, len |-> l, cond |-> c, iscall |-> k,
         branch_not_taken_pc |-> addr + l] :
          l \in 1 .. Len(bytes), c \in BOOLEAN, k \in BOOLEAN}

NoInst == [ok |-> FALSE, pc |-> 0, len |-> 0, cond |-> FALSE, iscall |-> FALSE,
           branch_not_taken_pc |-> 0]

\* ------------------------------------------------------------------------
\* LoadFunctionReturnAddress.
\* ------------------------------------------------------------------------

\* A slip: the permission of the byte is not looked at.
ReturnByteOk_IgnoresPerms(cell) ==
  cell.accessible \notin {"kUnknown", "kUnavailable"}

\* Whether the probe of byte pc + i lets the loop of lines 100-126 go on.
ReturnByteOk(cell) ==
  /\ cell.accessible \notin {"kUnknown", "kUnavailable"}
  /\ cell.perms \notin {"kReadable", "kReadableWritable"}

\* enc.flat of lines 139-145, from the four bytes at pc.
EncFlat(mem, pc) ==
  ((Query(mem, pc).byte * 256 + Query(mem, pc + 1).byte) * 256
     + Query(mem, pc + 2).byte) * 256 + Query(mem, pc + 3).byte

\* The bit fields of Format0a.
EncOp(flat) == (flat \div 1073741824) % 4
EncOp2(flat) == (flat \div 4194304) % 8

\* A slip: the marker is looked for on every architecture.
InspectsMarker_Always(sparc) == TRUE

\* Line 94: only SPARC is inspected for a marker after the call.
InspectsMarker(sparc) == sparc

\* The pair returned: the resume address and the return-pc value, with
\* whether the value is the loaded one plus 4.
LoadFunctionReturnAddress(insn, rpc, sparc, mem) ==
  LET pc == insn.branch_not_taken_pc
      plain == [addr |-> pc, val |-> rpc, corrected |-> FALSE]
  IN IF ~InspectsMarker(sparc) THEN plain
     ELSE IF \E i \in 0 .. 3 : ~ReturnByteOk(Query(mem, pc + i)) THEN plain
     ELSE IF EncOp(EncFlat(mem, pc)) = 0 /\ EncOp2(EncFlat(mem, pc)) = 0
          THEN [addr |-> pc + 4,
                val |-> IF rpc = Unknown THEN Unknown ELSE rpc + 4,
                corrected |-> TRUE]
          ELSE plain

\* ------------------------------------------------------------------------
\* DoInterProceduralControlFlow / ApplyInterProceduralControlFlowOverride.
\* ------------------------------------------------------------------------

\* NthArgument(func, n) for the function the block belongs to.
NthArgument(n) == ArgValue("arg", n, Unknown)

\* A slip: the hint is not looked at.
PcArgument_AlwaysLoaded(has_hint, hint) == ArgValue("load", "NEXT_PC", Unknown)

\* Lines 65-70: args[kPCArgNum] is pc_hint when there is one, here the
\* constant program_counter_init_procedure made of target_address (line
\* 179), else the value LoadNextProgramCounter loads.
PcArgument(has_hint, hint) ==
  IF has_hint THEN ArgValue("const", "target_address", hint)
  ELSE ArgValue("load", "NEXT_PC", Unknown)

\* Lines 60-70: the argument array of the call.
BlockCallArgs(has_hint, hint) ==
  [memory |-> NthArgument("kMemoryPointerArgNum"),
   state |-> NthArgument("kStatePointerArgNum"),
   pc |-> PcArgument(has_hint, hint)]

\* AddCallFromBasicBlockFunctionToLifted(block, intrinsics.function_call, ..):
\* the program counter argument is the hint, or the loaded NEXT_PC.
AddCallFromBasicBlockFunctionToLifted(f, b, has_hint, hint) ==
  LET args == BlockCallArgs(has_hint, hint)
  IN IF args.pc.kind = "load"
     THEN AppendOp(AppendOp(f, b, Op("load", "", "NEXT_PC", Unknown)), b,
                   [Op("call", "function_call", "NEXT_PC", Unknown)
                      EXCEPT !.args = args])
     ELSE AppendOp(f, b, [Op("call", "function_call", "const", args.pc.v)
                            EXCEPT !.args = args])

\* call->setDoesNotReturn() on the call last appended to block b.
SetDoesNotReturn(f, b) == [f EXCEPT ![b][Len(f[b])].noreturn = TRUE]

\* A slip: the Return override ends the block.
ReturnOverride_Terminal(f, b) ==
  [f |-> AppendOp(f, b, Op("store", "should_return", "const", 1)),
   ret |-> FALSE]

\* Lines 198-206: a Return override stores true into should_return and the
\* function returns true.
ReturnOverride(f, b) ==
  [f |-> AppendOp(f, b, Op("store", "should_return", "const", 1)),
   ret |-> TRUE]

\* A slip: after a Call with stop the function reports the block as going on.
CallStopOverride_Continues(called, b) ==
  [f |-> AddTerminatingTailCall(SetDoesNotReturn(called, b), b),
   ret |-> TRUE]

\* Lines 192-197 for a Call with stop: the call is marked noreturn, the
\* block is ended with the error intrinsic, and the function returns false.
CallStopOverride(called, b) ==
  [f |-> AddTerminatingTailCall(SetDoesNotReturn(called, b), b),
   ret |-> FALSE]

\* The value of DoInterProceduralControlFlow: the function after it and the
\* boolean it returns.
DoInterProceduralControlFlow(f, insn, b, override, rpc, sparc, mem) ==
  IF override.kind = "Call"
  THEN LET called == AddCallFromBasicBlockFunctionToLifted(
                        f, b, override.has_target, override.target_address)
       IN IF ~override.stop
          THEN LET ra == LoadFunctionReturnAddress(insn, rpc, sparc, mem)
                   src == IF ra.corrected THEN "RETURN_PC+4" ELSE "RETURN_PC"
                   loaded == AppendOp(called, b,
                                      Op("load", "", "RETURN_PC", rpc))
                   added == IF ra.corrected
                            THEN AppendOp(loaded, b,
                                          Op("add", "", "RETURN_PC", ra.val))
                            ELSE loaded
                   s1 == AppendOp(added, b, Op("store", "NEXT_PC", src, ra.val))
                   s2 == AppendOp(s1, b, Op("store", "PC", src, ra.val))
               IN [f |-> s2, ret |-> TRUE]
          ELSE CallStopOverride(called, b)
  ELSE IF override.kind = "Return"
  THEN ReturnOverride(f, b)
  ELSE [f |-> f, ret |-> TRUE]

\* A slip: the taken block is always linked to the continuation.
LinkBack_Always(done, do_control_flow, continuation) ==
  AppendOp(done.f, do_control_flow, Op("br", "", "", continuation))

\* Lines 230-233: the taken block branches to the continuation when the
\* override left it unterminated.
LinkBack(done, do_control_flow, continuation) ==
  IF done.ret
  THEN AppendOp(done.f, do_control_flow, Op("br", "", "", continuation))
  ELSE done.f

\* A slip: a split passes on what the override returned.
SplitReturns_Inner(inner) == inner

\* Line 236: after a split the function returns true.
SplitReturns(inner) == TRUE

\* A slip: an override with stop ends the block, whatever its kind.
OtherOverride_StopTerminal(f, b, override) ==
  IF override.stop
  THEN [f |-> AddTerminatingTailCall(f, b), ret |-> FALSE]
  ELSE [f |-> f, ret |-> TRUE]

\* Lines 216-242: an override that is neither a Call nor a Return (none, a
\* Jump, a Misc) emits nothing and the function returns true.
OtherOverride(f, b, override) == [f |-> f, ret |-> TRUE]

\* The value of ApplyInterProceduralControlFlowOverride: the function after
\* it, the block lifting goes on in, the boolean it returns, and the two
\* blocks of a split (0 when there is none).
ApplyInterProceduralControlFlowOverride(f, insn, b, override, rpc, sparc, mem) ==
  IF override.kind \in {"Call", "Return"}
  THEN IF insn.cond
       THEN LET do_control_flow == Len(f) + 1
                continuation == Len(f) + 2
                loaded == AppendOp(f, b, Op("load", "", "BRANCH_TAKEN", Unknown))
                made == CreateBlock(CreateBlock(loaded))
                branched == AppendOp(made, b,
                               [Op("condbr", "", "BRANCH_TAKEN", do_control_flow)
                                  EXCEPT !.w = continuation])
                done == DoInterProceduralControlFlow(
                           branched, insn, do_control_flow, override, rpc,
                           sparc, mem)
                linked == LinkBack(done, do_control_flow, continuation)
            IN [f |-> linked, block |-> continuation,
                ret |-> SplitReturns(done.ret),
                taken |-> do_control_flow, cont |-> continuation,
                inner |-> done.ret]
       ELSE LET done == DoInterProceduralControlFlow(
                           f, insn, b, override, rpc, sparc, mem)
            IN [f |-> done.f, block |-> b, ret |-> done.ret,
                taken |-> 0, cont |-> 0, inner |-> done.ret]
  ELSE LET done == OtherOverride(f, b, override)
       IN [f |-> done.f, block |-> b, ret |-> done.ret, taken |-> 0,
           cont |-> 0, inner |-> done.ret]

\* ------------------------------------------------------------------------
\* Decoding contexts.
\* ------------------------------------------------------------------------

\* options.arch->CreateInitialContext(): the context registers of the
\* architecture and their initial values.
CreateInitialContext == [k \in {"TMReg"} |-> 0]

\* prev_context.UpdateContextReg(k, v): the key holds v, whether the context
\* had it or not.
UpdateContextReg(ctx, k, v) ==
  [x \in DOMAIN ctx \cup {k} |-> IF x = k THEN v ELSE ctx[x]]

\* ApplyContextAssignments: UpdateContextReg for every pair of the map, in
\* the map's iteration order.
RECURSIVE ApplyContextAssignments(_, _)
ApplyContextAssignments(assignments, prev_context) ==
  IF DOMAIN assignments = {} THEN prev_context
  ELSE LET k == CHOOSE x \in DOMAIN assignments : TRUE
           rest == [x \in DOMAIN assignments \ {k} |-> assignments[x]]
       IN ApplyContextAssignments(
            rest, UpdateContextReg(prev_context, k, assignments[k]))

\* CreateDecodingContext(blk)
CreateDecodingContext(assignments) ==
  ApplyContextAssignments(assignments, CreateInitialContext)

\* The context the decoder says holds after an instruction: decoding may
\* switch the mode register.
ContextAfterInstruction(ctx) ==
  IF "TMReg" \in DOMAIN ctx THEN [ctx EXCEPT !["TMReg"] = 1 - @] ELSE ctx

\* A slip: each instruction is decoded under the context the decoder left.
NextDecodingContext_Threaded(initial, attempts) ==
  IF attempts = <<>> THEN initial ELSE attempts[Len(attempts)].out

\* Line 351: every call of DecodeInstructionInto is passed a copy of
\* init_context.
NextDecodingContext(initial, attempts) == initial

\* ------------------------------------------------------------------------
\* Type hints.
\* ------------------------------------------------------------------------

\* std::lower_bound over hints[first + 1 .. first + len] with
\* hint.target_addr < addr: the number of hints before the bound.
RECURSIVE lower_bound(_, _, _, _)
lower_bound(hints, first, len, addr) ==
  IF len <= 0 THEN first
  ELSE LET half == len \div 2
       IN IF hints[first + half + 1].target_addr < addr
          THEN lower_bound(hints, first + half + 1, len - half - 1, addr)
          ELSE lower_bound(hints, first, half, addr)

\* std::upper_bound with addr < hint.target_addr.
RECURSIVE upper_bound(_, _, _, _)
upper_bound(hints, first, len, addr) ==
  IF len <= 0 THEN first
  ELSE LET half == len \div 2
       IN IF addr < hints[first + half + 1].target_addr
          THEN upper_bound(hints, first, half, addr)
          ELSE upper_bound(hints, first + half + 1, len - half - 1, addr)

\* A slip: the range ends where it starts, at the lower bound.
HintRangeEnd_LowerBound(hints, addr) == lower_bound(hints, 0, Len(hints), addr)

\* Lines 377-381: the end of the range of hints applied at addr.
HintRangeEnd(hints, addr) == upper_bound(hints, 0, Len(hints), addr)

\* ApplyTypeHint(builder, start->hint)
ApplyTypeHint(f, b, hint) == AppendOp(f, b, Op("type_hint", "", "", hint))

\* The loop of lines 382-384 from position start (counted from 0) to end.
RECURSIVE ApplyTypeHints(_, _, _, _, _)
ApplyTypeHints(f, b, hints, start, end) ==
  IF start >= end THEN f
  ELSE ApplyTypeHints(ApplyTypeHint(f, b, hints[start + 1].hint), b, hints,
                      start + 1, end)

\* ------------------------------------------------------------------------
\* LiftInstructionsIntoLiftedFunction.
\* ------------------------------------------------------------------------

BlockEnd == block_def.addr + block_def.size

\* A slip: the loop goes on at the block's end.
LoopCondition_Inclusive(reached, end, terminal) == reached <= end /\ ~terminal

\* The condition of the while loop, lines 347-348.
LoopCondition(reached, end, terminal) == reached < end /\ ~terminal

\* Lines 329-346: the entry block branches to a fresh block bb, and
\* reached_addr starts at the block's address.
InitLift ==
  /\ block_def \in [addr : BlockAddrs, size : 1 .. MaxSize]
  /\ is_sparc \in BOOLEAN
  /\ memory \in Memories
  /\ arch_max_inst_size = MaxInstSize
  /\ max_inst_size = 0
  /\ pc_ = "decode"
  /\ reached_addr = block_def.addr
  /\ ended_on_terminal = FALSE
  /\ decode_failed = FALSE
  /\ inst = NoInst
  /\ lifted_func = <<  <<Op("br", "", "", 2)>>, <<>>  >>
  /\ bb = 2
  /\ return_pc = Unknown
  /\ decoded = <<>>
  /\ applied = <<>>
  /\ type_hints = <<>>
  /\ context_assignments = [k \in {} |-> 0]
  /\ init_context = CreateDecodingContext(context_assignments)
  /\ contexts = <<>>

\* A slip: a decode failure returns without ending the block.
DecodeFailure_NoTrap(f, b) == f

\* Lines 352-357: on a decode failure the block is ended with the error
\* intrinsic before the function returns.
DecodeFailure(f, b) == AddTerminatingTailCall(f, b)

\* Lines 347-359: the loop condition holds, an instruction is decoded at
\* reached_addr; on failure the block is trapped and the function returns,
\* else reached_addr advances by the instruction's length.
DecodeStep ==
  /\ pc_ = "decode"
  /\ LoopCondition(reached_addr, BlockEnd, ended_on_terminal)
  /\ LET limit == StaticMaxInstSize(max_inst_size, arch_max_inst_size)
         bytes == AccumulateBytes(memory, reached_addr, 0, limit)
         context == NextDecodingContext(init_context, contexts)
     IN /\ max_inst_size' = limit
        /\ contexts' = Append(contexts,
                              [used |-> context,
                               out |-> ContextAfterInstruction(context)])
        /\ \E res \in DecodeInstruction(reached_addr, bytes) :
             /\ inst' = res
             /\ IF ~res.ok
                THEN /\ lifted_func' = DecodeFailure(lifted_func, bb)
                     /\ decode_failed' = TRUE
                     /\ pc_' = "done"
                     /\ UNCHANGED <<reached_addr, decoded>>
                ELSE /\ reached_addr' = reached_addr + res.len
                     /\ decoded' = Append(decoded, res)
                     /\ pc_' = "lift"
                     /\ UNCHANGED <<lifted_func, decode_failed>>
  /\ UNCHANGED <<block_def, is_sparc, memory, arch_max_inst_size,
                 ended_on_terminal, bb, return_pc, applied, type_hints,
                 context_assignments, init_context>>
  /\ UNCHANGED <<fnVars, packVars, probeVars, runVars, nameVars, threadVars, providerVars, loopVars, markerVars, declVars, callVars, cmpVars, passVars, statVars, boundVars>>

\* A slip: the type hints are applied before the semantics are appended.
LiftIntoBlockThenHint_HintsFirst(f, b, insn, hints) ==
  AppendOp(
    ApplyTypeHints(f, b, hints, lower_bound(hints, 0, Len(hints), insn.pc),
                   HintRangeEnd(hints, insn.pc)),
    b, Op("semantics", "", "", insn.pc))

\* Lines 366-384: LiftIntoBlock appends the instruction's semantics to the
\* block, then the type hints of the instruction's address are applied.
LiftIntoBlockThenHint(f, b, insn, hints) ==
  ApplyTypeHints(
    AppendOp(f, b, Op("semantics", "", "", insn.pc)), b, hints,
    lower_bound(hints, 0, Len(hints), insn.pc), HintRangeEnd(hints, insn.pc))

\* Lines 366-387 for the instruction just decoded, had the
\* ControlFlowProvider answered with the given override: the function, the
\* block lifting goes on in, and what the override returned.
LiftedInstruction(override) ==
  ApplyInterProceduralControlFlowOverride(
    LiftIntoBlockThenHint(lifted_func, bb, inst, type_hints), inst, bb,
    override, IF inst.iscall THEN inst.branch_not_taken_pc ELSE return_pc,
    is_sparc, memory)

\* Lines 366-389: the instruction's semantics are appended to bb, then the
\* override at inst.pc is queried and applied.
LiftStep ==
  /\ pc_ = "lift"
  /\ \E override \in Overrides :
       LET rpc == IF inst.iscall THEN inst.branch_not_taken_pc ELSE return_pc
           hinted == LiftIntoBlockThenHint(lifted_func, bb, inst, type_hints)
           res == LiftedInstruction(override)
       IN /\ return_pc' = rpc
          /\ lifted_func' = res.f
          /\ bb' = res.block
          /\ ended_on_terminal' = ~res.ret
          /\ applied' = Append(applied,
                [pc |-> inst.pc, override |-> override, cond |-> inst.cond,
                 iscall |-> inst.iscall, from |-> bb, taken |-> res.taken,
                 cont |-> res.cont, inner |-> res.inner, ret |-> res.ret,
                 emitted |-> SubSeq(res.f[bb], Len(lifted_func[bb]) + 1,
                                    Len(res.f[bb])),
                 hints |-> Len(hinted[bb]) - Len(lifted_func[bb]) - 1,
                 blocks_before |-> Len(lifted_func),
                 blocks_after |-> Len(res.f)])
  /\ pc_' = "decode"
  /\ UNCHANGED <<block_def, is_sparc, memory, arch_max_inst_size,
                 max_inst_size, reached_addr, decode_failed, inst, decoded,
                 type_hints, context_assignments, init_context, contexts>>
  /\ UNCHANGED <<fnVars, packVars, probeVars, runVars, nameVars, threadVars, providerVars, loopVars, markerVars, declVars, callVars, cmpVars, passVars, statVars, boundVars>>

\* A slip: the fall-through exit is emitted however the loop ended.
EmitsFallThrough_Always(terminal) == TRUE

\* Line 392: the fall-through exit is emitted unless a terminal override
\* ended the loop.
EmitsFallThrough(terminal) == ~terminal

\* Lines 392-401: the loop condition fails; without a terminal override the
\* fall-through exit is emitted.
ExitStep ==
  /\ pc_ = "decode"
  /\ ~LoopCondition(reached_addr, BlockEnd, ended_on_terminal)
  /\ lifted_func' =
       IF EmitsFallThrough(ended_on_terminal)
       THEN AppendOp(AppendOp(AppendOp(AppendOp(lifted_func, bb,
                Op("load", "", "NEXT_PC", Unknown)), bb,
                Op("store", "next_pc_out", "NEXT_PC", Unknown)), bb,
                Op("load", "", "MEMORY", Unknown)), bb,
                Op("ret", "", "MEMORY", Unknown))
       ELSE lifted_func
  /\ pc_' = "done"
  /\ UNCHANGED <<block_def, is_sparc, memory, arch_max_inst_size,
                 max_inst_size, reached_addr, ended_on_terminal,
                 decode_failed, inst, bb, return_pc, decoded, applied,
                 type_hints, context_assignments, init_context, contexts>>
  /\ UNCHANGED <<fnVars, packVars, probeVars, runVars, nameVars, threadVars, providerVars, loopVars, markerVars, declVars, callVars, cmpVars, passVars, statVars, boundVars>>

\* ------------------------------------------------------------------------
\* The block functions of one FunctionDecl: construction of the lifters and
\* the successor dispatch (TerminateBasicBlockFunction).
\* ------------------------------------------------------------------------

\* Number of blocks of the function.
MaxBlocks == 2

Uids == 1 .. MaxBlocks

\* Start addresses drawn for the blocks; two blocks may start at one address.
FnAddrs == {1, 2}

\* The block graphs drawn: any address and any set of successors per block.
Cfgs ==
  {[u \in Uids |-> [uid |-> u, addr |-> c[u].addr,
                    outgoing_edges |-> c[u].outgoing_edges]] :
     c \in [Uids -> [addr : FnAddrs, outgoing_edges : SUBSET Uids]]}

\* A function without the anvill metadata.
NoMetadata == [addr |-> Unknown, uid |-> Unknown]

\* A slip: the address annotation is given the uid.
GetBasicBlockAnnotations_UidTwice(blk) == [addr |-> blk.uid, uid |-> blk.uid]

\* Lines 443-446: kBasicBlockAddrMetadata is block_def.addr and
\* kBasicBlockUidMetadata is block_def.uid.
GetBasicBlockAnnotations(blk) == [addr |-> blk.addr, uid |-> blk.uid]

\* Lines 416-421: the parameter types of the architecture's lifted function
\* type, the first of them replaced by a plain pointer.
LiftedFunctionParams == <<"ptr", "pc", "memory">>

\* Lines 483-493: the parameters of the lowlift function: those of a lifted
\* function, then the pointers to next_pc and should_return.
LowLiftParams == <<"state", "pc", "memory", "ptr", "ptr">>

\* Lines 416-427: the parameters of a block function: those of a lifted
\* function, then one pointer for each of the n elements of var_struct_ty,
\* which StructTypeFromVars (lines 666-674) makes of decl.in_scope_variables.
BlockFunctionParams(n) == LiftedFunctionParams \o [i \in 1 .. n |-> "ptr"]

\* DeclareBasicBlockFunction: one more function in the module, named after
\* the block's address and uid, not yet defined.
DeclareBasicBlockFunction(fns, blk) ==
  Append(fns, [kind |-> "bb", uid |-> blk.uid, addr |-> blk.addr,
               defined |-> FALSE, metadata |-> NoMetadata,
               params |-> BlockFunctionParams(in_scope_variables)])

\* A slip: the constructor leaves bb_func null, to be declared when the
\* block is lifted.
Constructor_NoDeclare(st, blk) ==
  [st EXCEPT !.lifters = Append(@, [uid |-> blk.uid, bb_func |-> 0])]

\* BasicBlockLifter::BasicBlockLifter: the members are set and bb_func is
\* declared; nothing is lifted and no other lifter is asked for.
Constructor(st, blk) ==
  [st EXCEPT !.lifters = Append(@, [uid |-> blk.uid,
                                    bb_func |-> Len(st.functions) + 1]),
             !.functions = DeclareBasicBlockFunction(@, blk)]

\* FunctionLifter::GetOrCreateBasicBlockLifter(uid): the lifter cached for
\* uid, constructed and cached first when there is none.
GetOrCreateBasicBlockLifter(st, blk) ==
  IF blk.uid \in DOMAIN st.bb_lifters
  THEN st
  ELSE LET made == Constructor(st, blk)
       IN [made EXCEPT !.bb_lifters =
             [u \in DOMAIN @ \cup {blk.uid} |->
                IF u = blk.uid THEN Len(made.lifters) ELSE @[u]]]

\* A slip: a lifter is constructed for every edge, whatever the cache holds.
SuccessorLifter_Fresh(st, blk) ==
  LET made == Constructor(st, blk)
  IN [made EXCEPT !.bb_lifters =
        [u \in DOMAIN @ \cup {blk.uid} |->
           IF u = blk.uid THEN Len(made.lifters) ELSE @[u]]]

\* Line 642: the successor's lifter comes from the FunctionLifter's cache.
SuccessorLifter(st, blk) == GetOrCreateBasicBlockLifter(st, blk)

\* Lines 800-803: the arguments of the function caller, from arg_begin to
\* arg_end.
CallerArguments(fns, caller) ==
  [i \in 1 .. Len(fns[caller].params) |-> [fn |-> caller, arg |-> i]]

\* A slip: the three block arguments alone are forwarded.
ForwardedArguments_BlockArgsOnly(fns, caller) ==
  SubSeq(CallerArguments(fns, caller), 1, 3)

\* Lines 800-805: every argument of the caller is passed on, in order.
ForwardedArguments(fns, caller) == CallerArguments(fns, caller)

\* ControlFlowCallBasicBlockFunction: a tail call of the lifter's bb_func
\* with the caller's own arguments.
ControlFlowCallBasicBlockFunction(fns, lifter, caller) ==
  [callee |-> lifter.bb_func, args |-> ForwardedArguments(fns, caller),
   tail |-> TRUE]

\* The override of a block's last instruction, as far as the block
\* function's exit depends on it: its kind, and whether the instruction is
\* conditional.
NoLastOverride == [kind |-> "monostate", cond |-> FALSE]

LastOverrides ==
  {NoLastOverride} \cup {[kind |-> "Return", cond |-> c] : c \in BOOLEAN}

\* The values should_return may hold when the call of lifted_func returns:
\* line 515 stores false before the call, and a Return override stores true
\* (lines 199-203) when its instruction is executed and, if conditional,
\* taken.
ShouldReturnValues(last) ==
  IF last.kind = "Return"
  THEN IF last.cond THEN BOOLEAN ELSE {TRUE}
  ELSE {FALSE}

\* A slip: the two targets of the branch are swapped.
TerminatorBranch_Swapped(should_return_value) ==
  IF should_return_value THEN "jump_block" ELSE "ret_block"

\* Lines 629-631: the block function branches on should_return to the
\* block that returns or to the block that dispatches.
TerminatorBranch(should_return_value) ==
  IF should_return_value THEN "ret_block" ELSE "jump_block"

\* Where the switch of a block function sends a next-address value: the
\* first case with that value, else the default.
Dispatch(sw, value) ==
  IF \E k \in 1 .. Len(sw.cases) : sw.cases[k].value = value
  THEN LET k == CHOOSE j \in 1 .. Len(sw.cases) :
                  /\ sw.cases[j].value = value
                  /\ \A h \in 1 .. (j - 1) : sw.cases[h].value # value
       IN sw.cases[k].uid
  ELSE 0

\* Where the block function of a lifted block leaves, given the value of
\* should_return and the next address the lifted code left: it returns, or
\* the switch calls a successor's block function, or control reaches the
\* invalid_successor block.
BlockFunctionExit(sw, should_return_value, next_pc_value) ==
  IF TerminatorBranch(should_return_value) = "ret_block" THEN "return"
  ELSE IF Dispatch(sw, next_pc_value) = 0 THEN sw.default
  ELSE "successor"

\* What a BasicBlockContext holds, as far as the entry block depends on it:
\* the numbers of affine stack equalities, of live variables at entry, of
\* constants at entry and of live variables at exit.
EmptyBlockContext == [affine_equalities |-> 0, live_at_entry |-> 0,
                      constants_at_entry |-> 0, live_at_exit |-> 0]

\* n operations, numbered.
OpsOf(n, o, d, src) == [i \in 1 .. n |-> Op(o, d, src, i)]

\* Lines 511-521: the allocas of next_pc, should_return and MEMORY and
\* their first values.
EntryAllocas ==
  <<Op("alloca", "next_pc", "", 0),
    Op("alloca", "should_return", "", 0),
    Op("store", "should_return", "const", 0),
    Op("load", "", "memory_arg", Unknown),
    Op("alloca", "MEMORY", "", 0),
    Op("store", "MEMORY", "memory_arg", Unknown)>>

\* Lines 523-592: the State is allocated and given its default entry
\* state, the stack pointer, the affine stack equalities, the unpacked
\* live variables, the constants and the program counter.
StateInitialization(blk, ctx) ==
  <<Op("state_init", "State", "", 0),
    Op("store", "SP", "stack_pointer_init", blk.addr)>>
  \o OpsOf(ctx.affine_equalities, "store_native", "State", "stack_offset")
  \o OpsOf(ctx.live_at_entry, "unpack", "State", "live_at_entry")
  \o OpsOf(ctx.constants_at_entry, "store_native", "State", "constant")
  \o <<Op("load", "", "MEMORY", Unknown),
       Op("store", "PC", "program_counter_init", blk.addr)>>

\* Lines 608-610: the returned memory pointer is stored and
\* TerminateBasicBlockFunction branches on should_return.
EntryTail ==
  <<Op("store", "memory_arg", "ret_mem", Unknown),
    Op("store", "MEMORY", "ret_mem", Unknown),
    Op("load", "", "should_return", Unknown),
    Op("condbr", "", "should_return", 0)>>

\* A slip: the exit live variables are packed before the call.
EntryBlockOrder_PackFirst(initialization, call, pack, tail) ==
  initialization \o pack \o <<call>> \o tail

\* The order of lines 523-610: initialization, the call of lifted_func
\* (line 597), PackLiveValues (line 599), the tail.
EntryBlockOrder(initialization, call, pack, tail) ==
  initialization \o <<call>> \o pack \o tail

\* The entry block CreateBasicBlockFunction builds for a block.
CreateBasicBlockFunction(blk, ctx) ==
  EntryBlockOrder(
    EntryAllocas \o StateInitialization(blk, ctx),
    Op("call", "lifted_func", "State", blk.addr),
    OpsOf(ctx.live_at_exit, "pack", "live_at_exit", "State"),
    EntryTail)

FnState == [bb_lifters |-> bb_lifters, lifters |-> lifters,
            functions |-> functions]

\* No function has been named.
IdleName == named = <<>>

\* No thread lifts.
IdleThreads ==
  /\ thread_block = <<>>
  /\ thread_context_max = <<>>
  /\ thread_reached_addr = <<>>
  /\ thread_decoded = <<>>
  /\ thread_pc = <<>>

\* No word-sized decode loop runs.
IdleLoop ==
  /\ loop_block = [addr |-> 0, size |-> 0]
  /\ loop_reached_addr = 0
  /\ loop_ended_on_terminal = FALSE
  /\ loop_iterations = 0
  /\ loop_pc = "idle"

\* LoadFunctionReturnAddress is not looked at on its own.
IdleMarker ==
  /\ marker_sparc = FALSE
  /\ marker_layout = "lsb_first"
  /\ marker_memory = <<>>
  /\ marker_result = [kind |-> "idle"]

\* The FunctionDecl has no variable in scope.
IdleDecl == in_scope_variables = 0

\* CallBasicBlockFunction is not called.
IdleCall ==
  /\ bb_params = <<>>
  /\ bb_live_at_entry = {}
  /\ maximum_depth = 0
  /\ call_result = [kind |-> "idle"]

\* There is no Specification value.
IdleCompare ==
  /\ spec_handles = <<>>
  /\ spec_impls = 0
  /\ spec_compared = [kind |-> "idle"]

\* No statistics are collected.
IdleStat ==
  /\ mod_insts = <<>>
  /\ mod_globals = <<>>
  /\ stats = <<>>
  /\ collector_out = [kind |-> "idle"]

\* No Bound is asked.
IdleBound ==
  /\ isSigned = FALSE
  /\ cmp_lhs = 0
  /\ cmp_rhs = 0
  /\ cmp_result = [kind |-> "idle"]

\* No pass runs.
IdlePass ==
  /\ fn_is_declaration = TRUE
  /\ fn_insts = <<>>
  /\ entity_addrs = {}
  /\ pass_out = [kind |-> "idle"]

\* No TypeProvider is asked.
IdleProvider ==
  /\ type_provider = [class |-> "none"]
  /\ tp_query = <<>>
  /\ tp_result = <<>>

\* No block function runs.
IdleRun ==
  /\ run_block = [addr |-> 0]
  /\ stack_offsets = <<>>
  /\ live_at_entry = <<>>
  /\ entry_args = <<>>
  /\ constants_at_entry = <<>>
  /\ live_at_exit = <<>>
  /\ run_override = [cond |-> FALSE, override |-> NoOverride]
  /\ run_lifted = <<>>
  /\ run_taken = FALSE
  /\ run_switch = [default |-> "invalid_successor", cases |-> <<>>]
  /\ run_state = <<>>
  /\ run_should_return = FALSE
  /\ run_next_pc = 0
  /\ run_pc = "idle"
  /\ run_exit = "none"

\* No call is looked at on its own.
IdleProbe ==
  /\ calls = 0
  /\ context_max = 0
  /\ inst_bytes = <<>>
  /\ queried = 0
  /\ result = [kind |-> "none"]

\* No live values are packed or unpacked.
IdlePack ==
  /\ decls = <<>>
  /\ slots = <<>>
  /\ state_regs = <<>>
  /\ pack_pc = "idle"
  /\ aborted = FALSE

\* No function is being lifted: the state of the function-level variables
\* while a single block's decode loop is looked at.
IdleFn ==
  /\ cfg = [u \in {} |-> 0]
  /\ bb_lifters = [u \in {} |-> 0]
  /\ lifters = <<>>
  /\ functions = <<>>
  /\ cur = 0
  /\ todo = {}
  /\ switches = [u \in {} |-> 0]
  /\ lifted = {}
  /\ last_override = [u \in {} |-> 0]
  /\ block_contexts = [u \in {} |-> 0]
  /\ bodies = [u \in {} |-> 0]

\* Most variables in scope of a FunctionDecl.
MaxScopeVars == 1

\* The FunctionDecl has any number of variables in scope.
InitDecl == in_scope_variables \in 0 .. MaxScopeVars

\* A FunctionLifter before any block is visited.
InitFn ==
  /\ cfg \in Cfgs
  /\ bb_lifters = [u \in {} |-> 0]
  /\ lifters = <<>>
  /\ functions = <<>>
  /\ cur = 0
  /\ todo = {}
  /\ switches = [u \in {} |-> 0]
  /\ lifted = {}
  /\ last_override = [u \in Uids |-> NoLastOverride]
  /\ block_contexts = [u \in Uids |-> EmptyBlockContext]
  /\ bodies = [u \in {} |-> 0]

\* No block's decode loop is looked at.
IdleLift ==
  /\ block_def = [addr |-> 0, size |-> 0]
  /\ is_sparc = FALSE
  /\ memory = [a \in {} |-> GoodCell]
  /\ arch_max_inst_size = MaxInstSize
  /\ max_inst_size = 0
  /\ pc_ = "idle"
  /\ reached_addr = 0
  /\ ended_on_terminal = FALSE
  /\ decode_failed = FALSE
  /\ inst = NoInst
  /\ lifted_func = <<>>
  /\ bb = 0
  /\ return_pc = Unknown
  /\ decoded = <<>>
  /\ applied = <<>>
  /\ type_hints = <<>>
  /\ context_assignments = [k \in {} |-> 0]
  /\ init_context = [k \in {} |-> 0]
  /\ contexts = <<>>

\* The FunctionLifter visits a block not lifted yet: its lifter is fetched
\* from the cache and LiftBasicBlockFunction starts. CreateBasicBlockFunction
\* annotates and defines bb_func, creates the lowlift function, and
\* TerminateBasicBlockFunction (lines 619-635) creates the switch whose
\* default is the invalid_successor block, which is unreachable.
BeginLift(u) ==
  /\ cur = 0 /\ u \in DOMAIN cfg /\ u \notin lifted
  /\ LET st == GetOrCreateBasicBlockLifter(FnState, cfg[u])
         f == st.lifters[st.bb_lifters[u]].bb_func
         fns == IF f \in 1 .. Len(st.functions)
                THEN [st.functions EXCEPT ![f].defined = TRUE,
                                          ![f].metadata =
                                            GetBasicBlockAnnotations(cfg[u])]
                ELSE st.functions
     IN /\ bb_lifters' = st.bb_lifters
        /\ lifters' = st.lifters
        /\ functions' = Append(fns, [kind |-> "lowlift", uid |-> u,
                                     addr |-> cfg[u].addr, defined |-> TRUE,
                                     metadata |-> NoMetadata,
                                     params |-> LowLiftParams])
  /\ cur' = u
  /\ todo' = cfg[u].outgoing_edges
  /\ switches' = [v \in DOMAIN switches \cup {u} |->
                    IF v = u
                    THEN [default |-> "invalid_successor",
                          invalid_successor |-> "unreachable",
                          cases |-> <<>>]
                    ELSE switches[v]]
  /\ bodies' = [v \in DOMAIN bodies \cup {u} |->
                  IF v = u
                  THEN CreateBasicBlockFunction(cfg[u], block_contexts[u])
                  ELSE bodies[v]]
  /\ UNCHANGED <<cfg, lifted, last_override, block_contexts>>
  /\ UNCHANGED <<liftVars, packVars, probeVars, runVars, nameVars, threadVars, providerVars, loopVars, markerVars, declVars, callVars, cmpVars, passVars, statVars, boundVars>>

\* One iteration of the loop of lines 637-654: a forwarding block calls the
\* successor's block function, and a case for the successor's address is
\* added to the switch.
AddSuccessor(edge_uid) ==
  /\ cur # 0 /\ edge_uid \in todo
  /\ LET edge_bb == cfg[edge_uid]
         st == SuccessorLifter(FnState, edge_bb)
         child_lifter == st.lifters[st.bb_lifters[edge_bb.uid]]
         caller == st.lifters[st.bb_lifters[cur]].bb_func
         call == ControlFlowCallBasicBlockFunction(st.functions, child_lifter,
                                                    caller)
     IN /\ bb_lifters' = st.bb_lifters
        /\ lifters' = st.lifters
        /\ functions' = st.functions
        /\ switches' = [switches EXCEPT ![cur].cases =
              Append(@, [value |-> edge_bb.addr, uid |-> edge_bb.uid,
                         call |-> call, returns_call |-> TRUE])]
  /\ todo' = todo \ {edge_uid}
  /\ UNCHANGED <<cfg, cur, lifted, last_override, block_contexts, bodies>>
  /\ UNCHANGED <<liftVars, packVars, probeVars, runVars, nameVars, threadVars, providerVars, loopVars, markerVars, declVars, callVars, cmpVars, passVars, statVars, boundVars>>

\* The loop is over: the return block is filled (lines 656-664), the
\* instructions are lifted and LiftBasicBlockFunction returns.
FinishLift ==
  /\ cur # 0 /\ todo = {}
  /\ lifted' = lifted \cup {cur}
  /\ cur' = 0
  /\ UNCHANGED <<cfg, bb_lifters, lifters, functions, todo, switches,
                 last_override, block_contexts, bodies>>
  /\ UNCHANGED <<liftVars, packVars, probeVars, runVars, nameVars, threadVars, providerVars, loopVars, markerVars, declVars, callVars, cmpVars, passVars, statVars, boundVars>>

NextFn ==
  \/ \E u \in Uids : BeginLift(u)
  \/ \E e \in Uids : AddSuccessor(e)
  \/ FinishLift

\* Lifting is one synchronous loop over the blocks: it goes on while a step
\* is left.
InitFnLift == InitFn /\ InitDecl /\ IdleLift /\ IdlePack /\ IdleProbe /\ IdleRun /\ IdleName /\ IdleThreads /\ IdleProvider /\ IdleLoop /\ IdleMarker /\ IdleCall /\ IdleCompare /\ IdlePass /\ IdleStat /\ IdleBound

SpecFn == InitFnLift /\ [][NextFn]_vars /\ WF_vars(NextFn)

\* ------------------------------------------------------------------------
\* The block functions of blocks that end in a Return override.
\* ------------------------------------------------------------------------

\* Block graphs in which every block has its own address.
CfgsOwnAddress ==
  {[u \in Uids |-> [uid |-> u, addr |-> u, outgoing_edges |-> e[u]]] :
     e \in [Uids -> SUBSET Uids]}

InitFnReturn ==
  /\ cfg \in CfgsOwnAddress
  /\ bb_lifters = [u \in {} |-> 0]
  /\ lifters = <<>>
  /\ functions = <<>>
  /\ cur = 0
  /\ todo = {}
  /\ switches = [u \in {} |-> 0]
  /\ lifted = {}
  /\ last_override \in [Uids -> LastOverrides]
  /\ block_contexts = [u \in Uids |-> EmptyBlockContext]
  /\ bodies = [u \in {} |-> 0]

InitFnReturnOnly == InitFnReturn /\ IdleLift /\ IdlePack /\ IdleProbe /\ IdleRun /\ IdleName /\ IdleThreads /\ IdleProvider /\ IdleLoop /\ IdleMarker /\ IdleDecl /\ IdleCall /\ IdleCompare /\ IdlePass /\ IdleStat /\ IdleBound

SpecFnReturn == InitFnReturnOnly /\ [][NextFn]_vars

\* ------------------------------------------------------------------------
\* The entry blocks of block functions.
\* ------------------------------------------------------------------------

\* Most entries of each kind a BasicBlockContext holds.
MaxEntries == 1

BlockContexts ==
  [affine_equalities : 0 .. MaxEntries, live_at_entry : 0 .. MaxEntries,
   constants_at_entry : 0 .. MaxEntries, live_at_exit : 0 .. MaxEntries]

\* Block graphs in which every block has its own address and no successor
\* or every block as successor.
CfgsAllOrNone ==
  {[u \in Uids |-> [uid |-> u, addr |-> u, outgoing_edges |-> e[u]]] :
     e \in [Uids -> {{}, Uids}]}

InitFnEntry ==
  /\ cfg \in CfgsAllOrNone
  /\ bb_lifters = [u \in {} |-> 0]
  /\ lifters = <<>>
  /\ functions = <<>>
  /\ cur = 0
  /\ todo = {}
  /\ switches = [u \in {} |-> 0]
  /\ lifted = {}
  /\ last_override = [u \in Uids |-> NoLastOverride]
  /\ block_contexts \in [Uids -> BlockContexts]
  /\ bodies = [u \in {} |-> 0]

InitFnEntryOnly == InitFnEntry /\ IdleLift /\ IdlePack /\ IdleProbe /\ IdleRun /\ IdleName /\ IdleThreads /\ IdleProvider /\ IdleLoop /\ IdleMarker /\ IdleDecl /\ IdleCall /\ IdleCompare /\ IdlePass /\ IdleStat /\ IdleBound

SpecFnEntry == InitFnEntryOnly /\ [][NextFn]_vars

\* ------------------------------------------------------------------------
\* PackLiveValues / UnpackLiveValues.
\* ------------------------------------------------------------------------

\* Longest list of live variables drawn.
MaxVars == 2

\* Most storage locations of one variable.
MaxLocs == 2

\* Number of registers variables live in.
MaxRegs == 2

Regs == 1 .. MaxRegs

\* A LowLoc: a register (reg # 0) or a memory location.
LowLocs == {[reg |-> r, mem |-> FALSE] : r \in Regs}
           \cup {[reg |-> 0, mem |-> TRUE]}

RECURSIVE SeqsUpTo(_, _)
SeqsUpTo(S, n) ==
  IF n = 0 THEN {<<>>}
  ELSE LET shorter == SeqsUpTo(S, n - 1)
       IN shorter \cup {Append(q, x) : q \in shorter, x \in S}

\* The ParameterDecls drawn: one to MaxLocs ordered locations each.
Params == {[oredered_locs |-> l] : l \in SeqsUpTo(LowLocs, MaxLocs) \ {<<>>}}

\* HasMemLoc / HasRegLoc of a ParameterDecl.
HasMemLoc(param) ==
  \E k \in 1 .. Len(param.oredered_locs) : param.oredered_locs[k].mem

HasRegLoc(param) ==
  \E k \in 1 .. Len(param.oredered_locs) : param.oredered_locs[k].reg # 0

\* StoreNativeValue of a register-resident variable: each location's register
\* receives its part of the value, in order.
RECURSIVE StoreNativeValue(_, _, _, _)
StoreNativeValue(regs, param, value, k) ==
  IF k > Len(param.oredered_locs) THEN regs
  ELSE StoreNativeValue(
         [regs EXCEPT ![param.oredered_locs[k].reg] = value[k]],
         param, value, k + 1)

\* LoadLiftedValue of a register-resident variable: the parts read from its
\* locations' registers, in order.
LoadLiftedValue(regs, param) ==
  [k \in 1 .. Len(param.oredered_locs) |-> regs[param.oredered_locs[k].reg]]

\* The pointer provider given to UnpackLiveValues: the pointer of the i-th
\* variable of the list.
returned_value(i) == i

\* A slip: every value is written through the first variable's pointer.
into_vars_First(i) == 1

\* The pointer provider given to PackLiveValues: the same pointers.
into_vars(i) == i

\* A slip: the check is left out.
SplitCheckFails_Never(param) == FALSE

\* Lines 694-698 and 727-731: the CHECK of the else branch fails.
SplitCheckFails(param) == HasMemLoc(param) /\ HasRegLoc(param)

\* The loop of UnpackLiveValues from the i-th variable on: the registers
\* after it, and whether a CHECK failed.
RECURSIVE UnpackFrom(_, _, _, _)
UnpackFrom(ds, sl, regs, i) ==
  IF i > Len(ds) THEN [regs |-> regs, aborted |-> FALSE]
  ELSE IF ~HasMemLoc(ds[i])
       THEN UnpackFrom(ds, sl,
              StoreNativeValue(regs, ds[i], sl[returned_value(i)], 1), i + 1)
       ELSE IF SplitCheckFails(ds[i])
            THEN [regs |-> regs, aborted |-> TRUE]
            ELSE UnpackFrom(ds, sl, regs, i + 1)

UnpackLiveValues(ds, sl, regs) == UnpackFrom(ds, sl, regs, 1)

\* The loop of PackLiveValues from the i-th variable on: the slots after it,
\* and whether a CHECK failed.
RECURSIVE PackFrom(_, _, _, _)
PackFrom(ds, sl, regs, i) ==
  IF i > Len(ds) THEN [slots |-> sl, aborted |-> FALSE]
  ELSE IF ~HasMemLoc(ds[i])
       THEN PackFrom(ds,
              [sl EXCEPT ![into_vars(i)] = LoadLiftedValue(regs, ds[i])],
              regs, i + 1)
       ELSE IF SplitCheckFails(ds[i])
            THEN [slots |-> sl, aborted |-> TRUE]
            ELSE PackFrom(ds, sl, regs, i + 1)

PackLiveValues(ds, sl, regs) == PackFrom(ds, sl, regs, 1)

\* The value a slot holds before anything is packed: one part per location,
\* each different from every other part of every slot and from every
\* register's content.
SlotValue(i, param) ==
  [k \in 1 .. Len(param.oredered_locs) |-> <<"slot", i, k>>]

OriginalSlots(ds) == [i \in 1 .. Len(ds) |-> SlotValue(i, ds[i])]

OriginalRegs == [r \in Regs |-> <<"reg", r, 0>>]

\* A list of live variables, the slots of its variables and a State.
InitPack ==
  /\ decls \in SeqsUpTo(Params, MaxVars)
  /\ slots = OriginalSlots(decls)
  /\ state_regs = OriginalRegs
  /\ pack_pc = "start"
  /\ aborted = FALSE

\* UnpackLiveValues(bldr, ptr_provider, state_ptr, decls) at block entry.
DoUnpack ==
  /\ pack_pc = "start" /\ ~aborted
  /\ LET res == UnpackLiveValues(decls, slots, state_regs)
     IN /\ state_regs' = res.regs
        /\ aborted' = res.aborted
  /\ pack_pc' = "unpacked"
  /\ UNCHANGED <<decls, slots>>
  /\ UNCHANGED <<liftVars, fnVars, probeVars, runVars, nameVars, threadVars, providerVars, loopVars, markerVars, declVars, callVars, cmpVars, passVars, statVars, boundVars>>

\* PackLiveValues(bldr, state_ptr, ptr_provider, decls): on a State as it
\* is, or right after UnpackLiveValues of the same list.
DoPack ==
  /\ pack_pc \in {"start", "unpacked"} /\ ~aborted
  /\ LET res == PackLiveValues(decls, slots, state_regs)
     IN /\ slots' = res.slots
        /\ aborted' = res.aborted
  /\ pack_pc' = IF pack_pc = "start" THEN "packed" ELSE "repacked"
  /\ UNCHANGED <<decls, state_regs>>
  /\ UNCHANGED <<liftVars, fnVars, probeVars, runVars, nameVars, threadVars, providerVars, loopVars, markerVars, declVars, callVars, cmpVars, passVars, statVars, boundVars>>

NextPack == DoUnpack \/ DoPack

InitPackOnly == InitPack /\ IdleLift /\ IdleFn /\ IdleProbe /\ IdleRun /\ IdleName /\ IdleThreads /\ IdleProvider /\ IdleLoop /\ IdleMarker /\ IdleDecl /\ IdleCall /\ IdleCompare /\ IdlePass /\ IdleStat /\ IdleBound

SpecPack == InitPackOnly /\ [][NextPack]_vars

\* ------------------------------------------------------------------------
\* CallBasicBlockFunction.
\* ------------------------------------------------------------------------

\* Largest decl.maximum_depth drawn.
MaxDepth == 2

\* Memory offsets drawn for a stack-resident location.
MemOffsets == 0 .. MaxDepth

\* A LowLoc with its mem_offset: a register, or a stack slot.
FrameLocs ==
  {[reg |-> r, mem |-> FALSE, mem_offset |-> 0] : r \in Regs}
  \cup {[reg |-> 0, mem |-> TRUE, mem_offset |-> o] : o \in MemOffsets}

\* The ParameterDecls of a block: mostly one location, two for some.
FrameParams ==
  {[oredered_locs |-> <<l>>] : l \in FrameLocs}
  \cup {[oredered_locs |-> <<l, m>>] :
          l \in {x \in FrameLocs : x.mem_offset = 0}, m \in FrameLocs}

\* AbstractStack::PointerToStackMemberFromOffset has a value: the offset
\* lies inside the frame of decl.maximum_depth bytes.
PointerToStackMemberFromOffset(depth, offset) ==
  IF 0 <= offset /\ offset < depth
  THEN [kind |-> "stack", at |-> offset]
  ELSE [kind |-> "nullopt", at |-> 0]

\* A slip: the number of locations of a stack-resident variable is not
\* checked.
SingleLocationCheckFails_Never(repr_var) == FALSE

\* Line 762: CHECK(repr_var.oredered_locs.size() == 1) fails.
SingleLocationCheckFails(repr_var) == Len(repr_var.oredered_locs) # 1

\* Lines 757-777, ptr_provider for the i-th parameter: the pointer into the
\* stack frame or into out_param_locals, or the abort of the CHECK of line
\* 762 or of the LOG(FATAL) of line 768.
PointerProvider(params, depth, i) ==
  IF HasMemLoc(params[i])
  THEN IF SingleLocationCheckFails(params[i])
       THEN [kind |-> "fatal", at |-> 0]
       ELSE LET stack_ptr == PointerToStackMemberFromOffset(
                               depth, params[i].oredered_locs[1].mem_offset)
            IN IF stack_ptr.kind = "stack" THEN stack_ptr
               ELSE [kind |-> "fatal", at |-> 0]
  ELSE [kind |-> "struct", at |-> i]

\* The positions of a set of positions, in increasing order.
RECURSIVE InOrder(_)
InOrder(S) ==
  IF S = {} THEN <<>>
  ELSE LET least == CHOOSE x \in S : \A y \in S : x <= y
       IN <<least>> \o InOrder(S \ {least})

\* Lines 779-780: PackLiveValues over LiveBBParamsAtEntry() with
\* ptr_provider: the elements of out_param_locals after it, and whether a
\* CHECK failed.
PackEntryLiveValues(params, live, regs) ==
  LET order == InOrder(live)
      ds == [k \in 1 .. Len(order) |-> params[order[k]]]
      packed == PackLiveValues(ds, OriginalSlots(ds), regs)
  IN [aborted |-> packed.aborted,
      struct |-> [i \in 1 .. Len(params) |->
                    IF i \in live /\ ~HasMemLoc(params[i])
                    THEN packed.slots[CHOOSE k \in 1 .. Len(order) :
                                        order[k] = i]
                    ELSE <<"undef">>]]

\* Lines 738-792: the call made, or the abort.
CallBasicBlockFunction(params, live, depth, regs) ==
  LET packed == PackEntryLiveValues(params, live, regs)
      ptrs == [i \in 1 .. Len(params) |-> PointerProvider(params, depth, i)]
  IN IF packed.aborted \/ \E i \in 1 .. Len(params) : ptrs[i].kind = "fatal"
     THEN [kind |-> "aborted"]
     ELSE [kind |-> "call",
           args |-> <<[kind |-> "parent_stack", at |-> 0],
                      [kind |-> "program_counter_init", at |-> 0],
                      [kind |-> "memory_pointer", at |-> 0]>> \o ptrs,
           tail |-> TRUE,
           struct |-> packed.struct]

\* A block whose context has the parameters, some of them live at entry, in
\* a function of some maximum depth.
InitCall ==
  /\ bb_params \in SeqsUpTo(FrameParams, MaxVars)
  /\ bb_live_at_entry \in SUBSET (1 .. Len(bb_params))
  /\ maximum_depth \in 1 .. MaxDepth
  /\ call_result = [kind |-> "none"]

\* CallBasicBlockFunction(builder, parent_state, parent_stack,
\* memory_pointer).
DoCallBasicBlockFunction ==
  /\ call_result.kind = "none"
  /\ call_result' = CallBasicBlockFunction(bb_params, bb_live_at_entry,
                                           maximum_depth, OriginalRegs)
  /\ UNCHANGED <<bb_params, bb_live_at_entry, maximum_depth>>
  /\ UNCHANGED <<liftVars, fnVars, packVars, probeVars, runVars, nameVars, threadVars, providerVars, loopVars, markerVars, declVars, cmpVars, passVars, statVars, boundVars>>

NextCall == DoCallBasicBlockFunction

InitCallOnly ==
  InitCall /\ IdleLift /\ IdleFn /\ IdlePack /\ IdleProbe /\ IdleRun
  /\ IdleName /\ IdleThreads /\ IdleProvider /\ IdleLoop /\ IdleMarker
  /\ IdleDecl /\ IdleCompare /\ IdlePass /\ IdleStat /\ IdleBound

SpecCall == InitCallOnly /\ [][NextCall]_vars

\* ------------------------------------------------------------------------
\* Specification::operator== and operator!=.
\* ------------------------------------------------------------------------

\* Most Specification values alive at a time.
MaxHandles == 4

\* Specification.h line 191: impl.get() == that.impl.get().
SpecificationEquals(a, b) == a = b

\* Specification.h line 195: impl.get() == that.impl.get().
SpecificationNotEquals(a, b) == a = b

\* One Specification has been decoded.
InitCompare ==
  /\ spec_handles = <<1>>
  /\ spec_impls = 1
  /\ spec_compared = [kind |-> "none"]

\* Another Specification is decoded: a value with an implementation object
\* of its own.
NewSpecification ==
  /\ Len(spec_handles) < MaxHandles
  /\ spec_impls' = spec_impls + 1
  /\ spec_handles' = Append(spec_handles, spec_impls + 1)
  /\ UNCHANGED spec_compared
  /\ UNCHANGED <<liftVars, fnVars, packVars, probeVars, runVars, nameVars, threadVars, providerVars, loopVars, markerVars, declVars, callVars, passVars, statVars, boundVars>>

\* The i-th Specification is copied: the copy shares its std::shared_ptr
\* impl.
CopySpecification(i) ==
  /\ Len(spec_handles) < MaxHandles
  /\ spec_handles' = Append(spec_handles, spec_handles[i])
  /\ UNCHANGED <<spec_impls, spec_compared>>
  /\ UNCHANGED <<liftVars, fnVars, packVars, probeVars, runVars, nameVars, threadVars, providerVars, loopVars, markerVars, declVars, callVars, passVars, statVars, boundVars>>

\* a == b and a != b are evaluated for the i-th and j-th values.
CompareSpecifications(i, j) ==
  /\ spec_compared' =
       [kind |-> "compared", a |-> i, b |-> j,
        eq |-> SpecificationEquals(spec_handles[i], spec_handles[j]),
        ne |-> SpecificationNotEquals(spec_handles[i], spec_handles[j])]
  /\ UNCHANGED <<spec_handles, spec_impls>>
  /\ UNCHANGED <<liftVars, fnVars, packVars, probeVars, runVars, nameVars, threadVars, providerVars, loopVars, markerVars, declVars, callVars, passVars, statVars, boundVars>>

NextCompare ==
  \/ NewSpecification
  \/ \E i \in 1 .. Len(spec_handles) : CopySpecification(i)
  \/ \E i \in 1 .. Len(spec_handles), j \in 1 .. Len(spec_handles) :
       CompareSpecifications(i, j)

InitCompareOnly ==
  InitCompare /\ IdleLift /\ IdleFn /\ IdlePack /\ IdleProbe /\ IdleRun
  /\ IdleName /\ IdleThreads /\ IdleProvider /\ IdleLoop /\ IdleMarker
  /\ IdleDecl /\ IdleCall /\ IdlePass /\ IdleStat /\ IdleBound

SpecCompare == InitCompareOnly /\ [][NextCompare]_vars

\* ------------------------------------------------------------------------
\* ConvertAddressesToEntityUses.
\* ------------------------------------------------------------------------

\* Most instructions of the function.
MaxInsts == 2

\* Most operands of an instruction.
MaxOperands == 2

\* The addresses at which the resolver may have an entity; address 2 never
\* has one.
EntityAddrs == {1}

\* A ResolvedCrossReference, as far as the pass reads it.
Xref(valid, ra, sp, entity, global, pc, address) ==
  [is_valid |-> valid, references_return_address |-> ra,
   references_stack_pointer |-> sp, references_entity |-> entity,
   references_global_value |-> global, references_program_counter |-> pc,
   address |-> address]

\* What TryResolveReferenceWithClearedCache answers for a constant operand:
\* a lifted entity at address 1, the program counter plus 2, a global at
\* address 1 that is relative to the stack pointer, the return address, or
\* a plain number.
ConstXrefs ==
  {Xref(TRUE, FALSE, FALSE, TRUE, FALSE, FALSE, 1),
   Xref(TRUE, FALSE, FALSE, FALSE, FALSE, TRUE, 2),
   Xref(TRUE, FALSE, TRUE, FALSE, TRUE, FALSE, 1),
   Xref(TRUE, TRUE, FALSE, FALSE, FALSE, TRUE, 2),
   Xref(TRUE, FALSE, FALSE, FALSE, FALSE, FALSE, 2)}

\* What it answers for a value that is an instruction: nothing valid, or a
\* global at address 1.
InstXrefs ==
  {Xref(FALSE, FALSE, FALSE, FALSE, FALSE, FALSE, 1),
   Xref(TRUE, FALSE, FALSE, FALSE, TRUE, FALSE, 1)}

\* The operands the i-th instruction may have: a null operand, a constant,
\* or an earlier instruction.
OperandsOf(i) ==
  {[kind |-> "null", ref |-> 0, xref |-> x] :
     x \in {Xref(FALSE, FALSE, FALSE, FALSE, FALSE, FALSE, 1)}}
  \cup {[kind |-> "const", ref |-> 0, xref |-> x] : x \in ConstXrefs}
  \cup {[kind |-> "inst", ref |-> j, xref |-> x] :
          j \in 1 .. i - 1,
          x \in {Xref(FALSE, FALSE, FALSE, FALSE, FALSE, FALSE, 1)}}

\* The functions with a body drawn: each instruction has its operands and
\* the cross-reference it resolves to as a value.
RECURSIVE FunctionBodies(_)
FunctionBodies(n) ==
  IF n = 0 THEN {<<>>}
  ELSE LET shorter == FunctionBodies(n - 1)
       IN shorter
          \cup {Append(q, [operands |-> o, xref |-> x]) :
                  q \in {b \in shorter : Len(b) = n - 1},
                  o \in SeqsUpTo(OperandsOf(n), MaxOperands),
                  x \in InstXrefs}

\* xref_folder.TryResolveReferenceWithClearedCache(val) for the value of an
\* operand.
TryResolveReference(insts, operand) ==
  IF operand.kind = "inst" THEN insts[operand.ref].xref ELSE operand.xref

\* A slip: a reference to the stack pointer is accepted.
IsPossibleEntityUsage_StackToo(ra) ==
  /\ ra.is_valid /\ ~ra.references_return_address
  /\ \/ ra.references_entity
     \/ ra.references_global_value
     \/ ra.references_program_counter

\* Lines 144-150: the tests a resolved cross-reference has to pass.
IsPossibleEntityUsage(ra) ==
  /\ ra.is_valid /\ ~ra.references_return_address
  /\ ~ra.references_stack_pointer
  /\ \/ ra.references_entity
     \/ ra.references_global_value
     \/ ra.references_program_counter

\* Lines 129-155 from operand k of instruction i on: the uses put into
\* output, in the order of the loops.
RECURSIVE EnumerateFrom(_, _, _)
EnumerateFrom(insts, i, k) ==
  IF i > Len(insts) THEN <<>>
  ELSE IF k > Len(insts[i].operands) THEN EnumerateFrom(insts, i + 1, 1)
  ELSE LET operand == insts[i].operands[k]
           ra == TryResolveReference(insts, operand)
       IN IF operand.kind # "null" /\ IsPossibleEntityUsage(ra)
          THEN <<[inst |-> i, operand |-> k, xref |-> ra]>>
               \o EnumerateFrom(insts, i, k + 1)
          ELSE EnumerateFrom(insts, i, k + 1)

\* Lines 115-161.
EnumeratePossibleEntityUsages(is_declaration, insts) ==
  IF is_declaration THEN <<>> ELSE EnumerateFrom(insts, 1, 1)

\* A slip: every address is taken to have an entity.
EntityAtAddress_Always(entities, address) == TRUE

\* Lines 65-70: xref_resolver.EntityAtAddress gives an entity.
EntityAtAddress(entities, address) == address \in entities

\* Lines 53-98 from the n-th use on: the instructions after the rewrites
\* and the instructions put into to_erase.
RECURSIVE RewriteFrom(_, _, _, _, _)
RewriteFrom(insts, uses, entities, n, to_erase) ==
  IF n > Len(uses) THEN [insts |-> insts, to_erase |-> to_erase]
  ELSE LET use == uses[n]
           val == insts[use.inst].operands[use.operand]
       IN IF ~EntityAtAddress(entities, use.xref.address)
          THEN RewriteFrom(insts, uses, entities, n + 1, to_erase)
          ELSE RewriteFrom(
                 [insts EXCEPT ![use.inst].operands[use.operand] =
                    [kind |-> "entity", ref |-> 0, xref |-> use.xref]],
                 uses, entities, n + 1,
                 IF val.kind = "inst" THEN to_erase \cup {val.ref}
                 ELSE to_erase)

\* The operand uses of instruction j by instructions not erased.
UsesOf(insts, erased, j) ==
  {u \in (1 .. Len(insts)) \X (1 .. MaxOperands) :
     /\ u[1] \notin erased
     /\ u[2] <= Len(insts[u[1]].operands)
     /\ insts[u[1]].operands[u[2]].kind = "inst"
     /\ insts[u[1]].operands[u[2]].ref = j}

\* The orders in which a set may be iterated.
IterationOrders(S) ==
  {q \in [1 .. Cardinality(S) -> S] :
     \A a, b \in 1 .. Cardinality(S) : a # b => q[a] # q[b]}

\* Lines 100-104 from the n-th element of to_erase on, in the order the
\* unordered set is iterated: the instructions erased, each with the number
\* of uses it had when it was erased.
RECURSIVE EraseFrom(_, _, _, _)
EraseFrom(insts, order, n, erased) ==
  IF n > Len(order) THEN erased
  ELSE IF UsesOf(insts, DOMAIN erased, order[n]) = {}
       THEN EraseFrom(insts, order, n + 1,
              [j \in DOMAIN erased \cup {order[n]} |->
                 IF j = order[n]
                 THEN Cardinality(UsesOf(insts, DOMAIN erased, j))
                 ELSE erased[j]])
       ELSE EraseFrom(insts, order, n + 1, erased)

\* Lines 40-109: what run may return and leave behind, one outcome for
\* each order in which to_erase is iterated.
RunPass(is_declaration, insts, entities) ==
  LET uses == EnumeratePossibleEntityUsages(is_declaration, insts)
  IN IF is_declaration \/ uses = <<>>
     THEN {[kind |-> "ran", preserved |-> "all", insts |-> insts,
            erased |-> <<>>, to_erase |-> {}]}
     ELSE LET done == RewriteFrom(insts, uses, entities, 1, {})
          IN {[kind |-> "ran", preserved |-> "none", insts |-> done.insts,
               erased |-> EraseFrom(done.insts, order, 1, <<>>),
               to_erase |-> done.to_erase] :
                order \in IterationOrders(done.to_erase)}

\* A declaration, or a function with up to MaxInsts instructions, and a
\* resolver with entities at some addresses.
InitPass ==
  /\ fn_is_declaration \in BOOLEAN
  /\ fn_insts \in (IF fn_is_declaration THEN {<<>>}
                   ELSE FunctionBodies(MaxInsts))
  /\ entity_addrs \in SUBSET EntityAddrs
  /\ pass_out = [kind |-> "none"]

\* EnumeratePossibleEntityUsages(function).
Enumerate ==
  /\ pass_out.kind = "none"
  /\ pass_out' = [kind |-> "uses",
                  uses |-> EnumeratePossibleEntityUsages(fn_is_declaration,
                                                         fn_insts)]
  /\ UNCHANGED <<fn_is_declaration, fn_insts, entity_addrs>>
  /\ UNCHANGED <<liftVars, fnVars, packVars, probeVars, runVars, nameVars, threadVars, providerVars, loopVars, markerVars, declVars, callVars, cmpVars, statVars, boundVars>>

\* run(function, fam), with to_erase iterated in any order.
Run ==
  /\ pass_out.kind = "none"
  /\ pass_out' \in RunPass(fn_is_declaration, fn_insts, entity_addrs)
  /\ UNCHANGED <<fn_is_declaration, fn_insts, entity_addrs>>
  /\ UNCHANGED <<liftVars, fnVars, packVars, probeVars, runVars, nameVars, threadVars, providerVars, loopVars, markerVars, declVars, callVars, cmpVars, statVars, boundVars>>

NextPass == Enumerate \/ Run

InitPassOnly ==
  InitPass /\ IdleLift /\ IdleFn /\ IdlePack /\ IdleProbe /\ IdleRun
  /\ IdleName /\ IdleThreads /\ IdleProvider /\ IdleLoop /\ IdleMarker
  /\ IdleDecl /\ IdleCall /\ IdleCompare /\ IdleStat /\ IdleBound

SpecPass == InitPassOnly /\ [][NextPass]_vars

\* ------------------------------------------------------------------------
\* CodeQualityStatCollector.
\* ------------------------------------------------------------------------

\* Most instructions of the module.
MaxModuleInsts == 2

\* Most users of a global that are not instructions (constant expressions).
MaxConstUsers == 1

\* Most runs of the collector over the module.
MaxRuns == 2

\* The functions of the module.
ModuleFns == {"f", "g"}

\* The instructions the loop of lines 97-122 tells apart; the modules drawn
\* have no conditional branch, so ConditionalComplexity is not touched.
InstKinds == {"inttoptr", "ptrtoint", "switch_call", "other"}

\* An instruction of the module: the function it is in, its kind, and
\* whether an operand of it is the stack pointer or program counter global.
ModuleInsts ==
  [fn : ModuleFns, kind : InstKinds, uses_sp : BOOLEAN, uses_pc : BOOLEAN]

\* module.getGlobalVariable(name): absent, or present with some users that
\* are not instructions.
GlobalStates ==
  [present : BOOLEAN, const_users : 0 .. MaxConstUsers]

\* Lines 69, 81: the use list of a global: the users that are not
\* instructions, then each instruction that has the global as operand.
RECURSIVE UsersOf(_, _, _)
UsersOf(insts, flag, n) ==
  IF n > Len(insts) THEN <<>>
  ELSE (IF insts[n][flag]
        THEN <<[is_instruction |-> TRUE, fn |-> insts[n].fn]>>
        ELSE <<>>)
       \o UsersOf(insts, flag, n + 1)

GlobalUses(insts, global, flag) ==
  [k \in 1 .. global.const_users |->
     [is_instruction |-> FALSE, fn |-> "none"]]
  \o UsersOf(insts, flag, 1)

\* A slip: the set of functions already counted is not asked.
AlreadyCounted_Never(funcs, fn) == FALSE

\* Lines 72, 84: sp_funcs.count(I->getFunction()).
AlreadyCounted(funcs, fn) == fn \in funcs

\* Lines 69-77 and 81-89 from the n-th use on: the number added to the
\* statistic.
RECURSIVE CountFunctions(_, _, _)
CountFunctions(uses, n, funcs) ==
  IF n > Len(uses) THEN 0
  ELSE IF uses[n].is_instruction /\ ~AlreadyCounted(funcs, uses[n].fn)
       THEN 1 + CountFunctions(uses, n + 1, funcs \cup {uses[n].fn})
       ELSE CountFunctions(uses, n + 1, funcs)

\* Lines 68-78 and 80-90: nothing is counted for a global that is absent.
ExposingFunctions(insts, global, flag) ==
  IF global.present
  THEN CountFunctions(GlobalUses(insts, global, flag), 1, {})
  ELSE 0

\* The instructions of one kind.
NumberOfKind(insts, kind) ==
  Cardinality({n \in DOMAIN insts : insts[n].kind = kind})

\* Lines 61-124: the counters after a run over the module.
CollectStats(insts, globals, before) ==
  [ConditionalComplexity |-> before.ConditionalComplexity,
   NumberOfInstructions |-> before.NumberOfInstructions + Len(insts),
   AbruptControlFlow |->
     before.AbruptControlFlow + NumberOfKind(insts, "switch_call"),
   IntToPointerCasts |->
     before.IntToPointerCasts + NumberOfKind(insts, "inttoptr"),
   PointerToIntCasts |->
     before.PointerToIntCasts + NumberOfKind(insts, "ptrtoint"),
   AnvillStackPointers |->
     before.AnvillStackPointers
       + ExposingFunctions(insts, globals.sp, "uses_sp"),
   AnvillPCPointers |->
     before.AnvillPCPointers
       + ExposingFunctions(insts, globals.pc, "uses_pc")]

\* Any module of up to MaxModuleInsts instructions; a global that is absent
\* has no users; the statistics start at zero.
InitStat ==
  /\ mod_insts \in SeqsUpTo(ModuleInsts, MaxModuleInsts)
  /\ mod_globals \in [sp : GlobalStates, pc : GlobalStates]
  /\ ~mod_globals.sp.present =>
       /\ mod_globals.sp.const_users = 0
       /\ \A n \in DOMAIN mod_insts : ~mod_insts[n].uses_sp
  /\ ~mod_globals.pc.present =>
       /\ mod_globals.pc.const_users = 0
       /\ \A n \in DOMAIN mod_insts : ~mod_insts[n].uses_pc
  /\ stats = [ConditionalComplexity |-> 0, NumberOfInstructions |-> 0,
              AbruptControlFlow |-> 0, IntToPointerCasts |-> 0,
              PointerToIntCasts |-> 0, AnvillStackPointers |-> 0,
              AnvillPCPointers |-> 0]
  /\ collector_out = [kind |-> "none", runs |-> 0]

\* run(module, analysisManager).
RunCollector ==
  /\ collector_out.runs < MaxRuns
  /\ stats' = CollectStats(mod_insts, mod_globals, stats)
  /\ collector_out' = [kind |-> "ran", runs |-> collector_out.runs + 1,
                       preserved |-> "all", before |-> stats]
  /\ UNCHANGED <<mod_insts, mod_globals>>
  /\ UNCHANGED <<liftVars, fnVars, packVars, probeVars, runVars, nameVars, threadVars, providerVars, loopVars, markerVars, declVars, callVars, cmpVars, passVars, boundVars>>

NextStat == RunCollector

InitStatOnly ==
  InitStat /\ IdleLift /\ IdleFn /\ IdlePack /\ IdleProbe /\ IdleRun
  /\ IdleName /\ IdleThreads /\ IdleProvider /\ IdleLoop /\ IdleMarker
  /\ IdleDecl /\ IdleCall /\ IdleCompare /\ IdlePass /\ IdleBound

SpecStat == InitStatOnly /\ [][NextStat]_vars

\* ------------------------------------------------------------------------
\* Bound of the jump table analysis.
\* ------------------------------------------------------------------------

\* The bit width of the two APInt values.
BoundBits == 3

\* The bit patterns of that width.
BoundWords == 0 .. 2 ^ BoundBits - 1

\* APInt::ule: the bit patterns compared as numbers.
Ule(lhs, rhs) == lhs <= rhs

\* The bit pattern sign-extended, as APInt::sle reads it.
SignExtend(x) ==
  IF x >= 2 ^ (BoundBits - 1) THEN x - 2 ^ BoundBits ELSE x

\* APInt::sle.
Sle(lhs, rhs) == SignExtend(lhs) <= SignExtend(rhs)

\* A slip: the unsigned comparison in both modes.
lessThanOrEqual_Unsigned(signed, lhs, rhs) == Ule(lhs, rhs)

\* Lines 56-62.
lessThanOrEqual(signed, lhs, rhs) ==
  IF signed THEN Sle(lhs, rhs) ELSE Ule(lhs, rhs)

\* A Bound of either mode and two values of BoundBits bits.
InitBound ==
  /\ isSigned \in BOOLEAN
  /\ cmp_lhs \in BoundWords
  /\ cmp_rhs \in BoundWords
  /\ cmp_result = [kind |-> "none"]

\* bounds.lessThanOrEqual(lhs, rhs).
DoLessThanOrEqual ==
  /\ cmp_result.kind = "none"
  /\ cmp_result' =
       [kind |-> "done",
        value |-> lessThanOrEqual(isSigned, cmp_lhs, cmp_rhs),
        other_mode |-> lessThanOrEqual(~isSigned, cmp_lhs, cmp_rhs)]
  /\ UNCHANGED <<isSigned, cmp_lhs, cmp_rhs>>
  /\ UNCHANGED <<liftVars, fnVars, packVars, probeVars, runVars, nameVars, threadVars, providerVars, loopVars, markerVars, declVars, callVars, cmpVars, passVars, statVars>>

NextBound == DoLessThanOrEqual

InitBoundOnly ==
  InitBound /\ IdleLift /\ IdleFn /\ IdlePack /\ IdleProbe /\ IdleRun
  /\ IdleName /\ IdleThreads /\ IdleProvider /\ IdleLoop /\ IdleMarker
  /\ IdleDecl /\ IdleCall /\ IdleCompare /\ IdlePass /\ IdleStat

SpecBound == InitBoundOnly /\ [][NextBound]_vars

\* ------------------------------------------------------------------------
\* A run of an emitted block function.
\* ------------------------------------------------------------------------

\* The registers of the State structure: the registers variables live in,
\* the stack pointer and the program counter.
SPReg == MaxRegs + 1
PCReg == MaxRegs + 2
StateRegs == Regs \cup {SPReg, PCReg}

\* AllocateAndInitializeStateStructure (line 524): every register holds its
\* default entry value.
DefaultState == [r \in StateRegs |-> <<"reg", r, 0>>]

\* options.stack_pointer_init_procedure and
\* SymbolicStackPointerInitWithOffset: the symbolic stack pointer of the
\* block's entry plus an offset.
SymbolicStackPointerInitWithOffset(offset) == <<"sp", offset, 0>>

\* options.program_counter_init_procedure(ir, address_type, value)
ProgramCounterInit(value) == <<"pc", value, 0>>

\* A ValueDecl that is one register.
RegisterValue(r) == [oredered_locs |-> <<[reg |-> r, mem |-> FALSE]>>]

\* The affine stack equalities drawn: a register and a stack offset.
StackOffsets == {1, 2}
AffineEqualities ==
  {[target_value |-> RegisterValue(r), stack_offset |-> k] :
     r \in Regs, k \in StackOffsets}

\* The constants drawn: a register, a value, and whether it is tainted by
\* the program counter.
ConstantValues == {7}
Constants ==
  {[target_value |-> RegisterValue(r), value |-> v, should_taint_by_pc |-> t] :
     r \in Regs, v \in ConstantValues, t \in BOOLEAN}

\* The live variables drawn: each in one register.
RegisterParams == {RegisterValue(r) : r \in Regs}

\* The loop of lines 536-543 from the i-th equality on.
RECURSIVE StoreAffineEqualities(_, _, _)
StoreAffineEqualities(regs, equalities, i) ==
  IF i > Len(equalities) THEN regs
  ELSE StoreAffineEqualities(
         StoreNativeValue(regs, equalities[i].target_value,
           <<SymbolicStackPointerInitWithOffset(equalities[i].stack_offset)>>,
           1),
         equalities, i + 1)

\* Lines 556-567: the value stored for a constant.
ConstantValue(reg_const) ==
  IF reg_const.should_taint_by_pc
  THEN ProgramCounterInit(reg_const.value)
  ELSE <<"const", reg_const.value, 0>>

\* The loop of lines 555-578 from the i-th constant on.
RECURSIVE StoreConstants(_, _, _)
StoreConstants(regs, constants, i) ==
  IF i > Len(constants) THEN regs
  ELSE StoreConstants(
         StoreNativeValue(regs, constants[i].target_value,
                          <<ConstantValue(constants[i])>>, 1),
         constants, i + 1)

\* Lines 523-592 when they run: the State the call of lifted_func is given.
InitializedState(blk, equalities, live, args, constants) ==
  LET allocated == DefaultState
      with_sp == [allocated EXCEPT
                    ![SPReg] = SymbolicStackPointerInitWithOffset(0)]
      with_affine == StoreAffineEqualities(with_sp, equalities, 1)
      unpacked == UnpackLiveValues(live, args, with_affine).regs
      with_constants == StoreConstants(unpacked, constants, 1)
  IN [with_constants EXCEPT ![PCReg] = ProgramCounterInit(blk.addr)]

\* A slip: should_return starts as true.
ShouldReturnInit_True == TRUE

\* Line 515: false is stored into should_return.
ShouldReturnInit == FALSE

\* What running the lifted function from operation k of its block b does to
\* should_return, and whether the function returns: a conditional branch
\* follows BRANCH_TAKEN, the error intrinsic does not return.
RECURSIVE RunLifted(_, _, _, _, _)
RunLifted(f, b, k, flag, taken) ==
  IF k > Len(f[b]) THEN [should_return |-> flag, returns |-> TRUE]
  ELSE LET o == f[b][k]
       IN IF o.op = "store" /\ o.dst = "should_return"
          THEN RunLifted(f, b, k + 1, o.v # 0, taken)
          ELSE IF o.op = "condbr"
          THEN RunLifted(f, IF taken THEN o.v ELSE o.w, 1, flag, taken)
          ELSE IF o.op = "br"
          THEN RunLifted(f, o.v, 1, flag, taken)
          ELSE IF o.op = "error_tail"
          THEN [should_return |-> flag, returns |-> FALSE]
          ELSE RunLifted(f, b, k + 1, flag, taken)

\* The lifted function of a block of one instruction with an override.
LiftedWithOverride(addr, cond, override) ==
  ApplyInterProceduralControlFlowOverride(
    <<<<>>>>,
    [ok |-> TRUE, pc |-> addr, len |-> 1, cond |-> cond, iscall |-> FALSE,
     branch_not_taken_pc |-> addr + 1],
    1, override, Unknown, FALSE, AllGood).f

\* The addresses the lifted code may leave in next_pc, and the addresses of
\* the successors drawn.
SuccessorAddrs == {2, 3}
NextPcValues == SuccessorAddrs \cup {0}

\* The switch TerminateBasicBlockFunction builds for a set of successors.
RECURSIVE CasesOf(_)
CasesOf(addrs) ==
  IF addrs = {} THEN <<>>
  ELSE LET a == CHOOSE x \in addrs : \A y \in addrs : x <= y
       IN <<[value |-> a, uid |-> a]>> \o CasesOf(addrs \ {a})

SwitchOf(addrs) == [default |-> "invalid_successor", cases |-> CasesOf(addrs)]

\* A block function about to run, for a block context with affine
\* equalities, constants and live variables; its lifted function has no
\* override.
InitRunState ==
  /\ run_block \in {[addr |-> a] : a \in BlockAddrs}
  /\ stack_offsets \in SeqsUpTo(AffineEqualities, MaxEntries)
  /\ live_at_entry \in SeqsUpTo(RegisterParams, MaxEntries)
  /\ entry_args = OriginalSlots(live_at_entry)
  /\ constants_at_entry \in SeqsUpTo(Constants, MaxEntries)
  /\ live_at_exit = live_at_entry
  /\ run_override = [cond |-> FALSE, override |-> NoOverride]
  /\ run_lifted = LiftedWithOverride(run_block.addr, FALSE, NoOverride)
  /\ run_taken = FALSE
  /\ run_switch = SwitchOf(SuccessorAddrs)
  /\ run_state = <<>>
  /\ run_should_return = FALSE
  /\ run_next_pc = 0
  /\ run_pc = "start"
  /\ run_exit = "none"

\* A block function about to run, for a block of one instruction with any
\* override and any set of successors; its block context is empty.
InitRunReturn ==
  /\ run_block \in {[addr |-> a] : a \in BlockAddrs}
  /\ stack_offsets = <<>>
  /\ live_at_entry = <<>>
  /\ entry_args = <<>>
  /\ constants_at_entry = <<>>
  /\ live_at_exit = <<>>
  /\ run_override \in [cond : BOOLEAN, override : Overrides]
  /\ run_lifted = LiftedWithOverride(run_block.addr, run_override.cond,
                                     run_override.override)
  /\ run_taken = FALSE
  /\ \E addrs \in SUBSET SuccessorAddrs : run_switch = SwitchOf(addrs)
  /\ run_state = <<>>
  /\ run_should_return \in BOOLEAN
  /\ run_next_pc = 0
  /\ run_pc = "start"
  /\ run_exit = "none"

\* Lines 511-592 run: the allocas, the store of false into should_return,
\* and the initialization of the State.
EnterBlockFunction ==
  /\ run_pc = "start"
  /\ run_should_return' = ShouldReturnInit
  /\ run_state' = InitializedState(run_block, stack_offsets, live_at_entry,
                                   entry_args, constants_at_entry)
  /\ run_pc' = "initialized"
  /\ UNCHANGED <<run_block, stack_offsets, live_at_entry, entry_args,
                 constants_at_entry, live_at_exit, run_override, run_lifted,
                 run_taken, run_switch, run_next_pc, run_exit>>
  /\ UNCHANGED <<liftVars, fnVars, packVars, probeVars, nameVars, threadVars, providerVars, loopVars, markerVars, declVars, callVars, cmpVars, passVars, statVars, boundVars>>

\* Line 597 runs: the lifted function is given the State, next_pc and
\* should_return; it leaves an address in next_pc.
CallLiftedFunction ==
  /\ run_pc = "initialized"
  /\ \E taken \in BOOLEAN, value \in NextPcValues :
       LET ran == RunLifted(run_lifted, 1, 1, run_should_return, taken)
       IN /\ run_should_return' = ran.should_return
          /\ run_next_pc' = value
          /\ run_taken' = taken
          /\ run_pc' = IF ran.returns THEN "called" ELSE "noreturn"
  /\ UNCHANGED <<run_block, stack_offsets, live_at_entry, entry_args,
                 constants_at_entry, live_at_exit, run_override, run_lifted,
                 run_switch, run_state, run_exit>>
  /\ UNCHANGED <<liftVars, fnVars, packVars, probeVars, nameVars, threadVars, providerVars, loopVars, markerVars, declVars, callVars, cmpVars, passVars, statVars, boundVars>>

\* Lines 599-600 and the terminator of lines 629-664 run: the exit live
\* variables are packed, and the function returns or dispatches.
LeaveBlockFunction ==
  /\ run_pc = "called"
  /\ entry_args' = PackLiveValues(live_at_exit, entry_args, run_state).slots
  /\ run_exit' = BlockFunctionExit(run_switch, run_should_return, run_next_pc)
  /\ run_pc' = "left"
  /\ UNCHANGED <<run_block, stack_offsets, live_at_entry, constants_at_entry,
                 live_at_exit, run_override, run_lifted, run_taken,
                 run_switch, run_state, run_should_return, run_next_pc>>
  /\ UNCHANGED <<liftVars, fnVars, packVars, probeVars, nameVars, threadVars, providerVars, loopVars, markerVars, declVars, callVars, cmpVars, passVars, statVars, boundVars>>

NextRun == EnterBlockFunction \/ CallLiftedFunction \/ LeaveBlockFunction

InitRunStateOnly ==
  InitRunState /\ IdleLift /\ IdleFn /\ IdlePack /\ IdleProbe /\ IdleName /\ IdleThreads /\ IdleProvider /\ IdleLoop /\ IdleMarker /\ IdleDecl /\ IdleCall /\ IdleCompare /\ IdlePass /\ IdleStat /\ IdleBound

SpecRunState == InitRunStateOnly /\ [][NextRun]_vars

InitRunReturnOnly ==
  InitRunReturn /\ IdleLift /\ IdleFn /\ IdlePack /\ IdleProbe /\ IdleName /\ IdleThreads /\ IdleProvider /\ IdleLoop /\ IdleMarker /\ IdleDecl /\ IdleCall /\ IdleCompare /\ IdlePass /\ IdleStat /\ IdleBound

SpecRunReturn == InitRunReturnOnly /\ [][NextRun]_vars

\* ------------------------------------------------------------------------
\* The names of block functions.
\* ------------------------------------------------------------------------

\* Most block functions declared in one module.
MaxDeclared == 2

\* The values drawn for decl.address, block_def.addr and block_def.uid.
NameValues == {0, 1, 11}

Digits == <<"0", "1", "2", "3", "4", "5", "6", "7", "8", "9">>

\* std::to_string of an unsigned integer: its decimal digits, most
\* significant first, without leading zeros.
RECURSIVE to_string(_)
to_string(n) ==
  IF n < 10 THEN <<Digits[n + 1]>>
  ELSE to_string(n \div 10) \o <<Digits[(n % 10) + 1]>>

\* A slip: the address and the uid are not separated.
NameSeparator_None == <<>>

\* The "_" between the block's address and its uid.
NameSeparator == <<"_">>

\* Lines 413-414: the characters of name_.
BlockFunctionName(address, addr, uid) ==
  <<"f", "u", "n", "c">> \o to_string(address)
  \o <<"b", "a", "s", "i", "c", "_", "b", "l", "o", "c", "k">>
  \o to_string(addr) \o NameSeparator \o to_string(uid)

\* Lines 501-503: func->getName() + "lowlift".
LowLiftName(name) == name \o <<"l", "o", "w", "l", "i", "f", "t">>

InitName == named = <<>>

\* DeclareBasicBlockFunction for a block of some function: a function of
\* that name is created in the module.
DeclareNamed(address, addr, uid) ==
  /\ Len(named) < MaxDeclared
  /\ named' = Append(named,
                [address |-> address, addr |-> addr, uid |-> uid,
                 name |-> BlockFunctionName(address, addr, uid),
                 lowlift |-> <<>>])
  /\ UNCHANGED <<liftVars, fnVars, packVars, probeVars, runVars, threadVars, providerVars, loopVars, markerVars, declVars, callVars, cmpVars, passVars, statVars, boundVars>>

\* CreateBasicBlockFunction of the i-th declared function creates its
\* lowlift function.
CreateLowLift(i) ==
  /\ i \in 1 .. Len(named)
  /\ named[i].lowlift = <<>>
  /\ named' = [named EXCEPT ![i].lowlift = LowLiftName(named[i].name)]
  /\ UNCHANGED <<liftVars, fnVars, packVars, probeVars, runVars, threadVars, providerVars, loopVars, markerVars, declVars, callVars, cmpVars, passVars, statVars, boundVars>>

NextName ==
  \/ \E address \in NameValues, addr \in NameValues, uid \in NameValues :
       DeclareNamed(address, addr, uid)
  \/ \E i \in 1 .. MaxDeclared : CreateLowLift(i)

InitNameOnly ==
  InitName /\ IdleLift /\ IdleFn /\ IdlePack /\ IdleProbe /\ IdleRun /\ IdleThreads /\ IdleProvider /\ IdleLoop /\ IdleMarker /\ IdleDecl /\ IdleCall /\ IdleCompare /\ IdlePass /\ IdleStat /\ IdleBound

SpecName == InitNameOnly /\ [][NextName]_vars

\* ------------------------------------------------------------------------
\* Two functions lifted concurrently.
\* ------------------------------------------------------------------------

\* Number of threads, one function each.
MaxThreads == 2

Threads == 1 .. MaxThreads

\* The bytes both threads read: every byte readable, executable and zero.
ThreadMemory == AllGood

\* The lifts of one block on its own, in a process where no other decode
\* has run: the sequences of byte lengths the loop of lines 347-390 can
\* decode from addr to end with the byte limit of the block's own context.
RECURSIVE LiftAlone(_, _, _)
LiftAlone(addr, end, limit) ==
  IF ~LoopCondition(addr, end, FALSE) THEN {<<>>}
  ELSE UNION {
         IF d.ok
         THEN {<<d.len>> \o rest : rest \in LiftAlone(addr + d.len, end, limit)}
         ELSE {<<0>>} :
         d \in DecodeInstruction(
                 addr, AccumulateBytes(ThreadMemory, addr, 0, limit))}

\* Each thread is about to lift one block of its function; the decoding
\* contexts of the two functions may differ.
InitThreads ==
  /\ thread_block \in [Threads -> [addr : BlockAddrs, size : 1 .. MaxSize]]
  /\ thread_context_max \in [Threads -> 1 .. MaxInstSize]
  /\ thread_reached_addr = [t \in Threads |-> thread_block[t].addr]
  /\ thread_decoded = [t \in Threads |-> <<>>]
  /\ thread_pc = [t \in Threads |-> "loop"]

\* One iteration of the loop of lines 347-390 by thread t, for a block
\* without type hints and overrides: DecodeInstructionInto reads or
\* initialises the static max_inst_size (line 260), the bytes are
\* accumulated and decoded, and reached_addr advances.
ThreadDecodeStep(t) ==
  /\ thread_pc[t] = "loop"
  /\ LoopCondition(thread_reached_addr[t],
                   thread_block[t].addr + thread_block[t].size, FALSE)
  /\ LET limit == StaticMaxInstSize(max_inst_size, thread_context_max[t])
         bytes == AccumulateBytes(ThreadMemory, thread_reached_addr[t], 0, limit)
     IN /\ max_inst_size' = limit
        /\ \E d \in DecodeInstruction(thread_reached_addr[t], bytes) :
             IF d.ok
             THEN /\ thread_decoded' =
                       [thread_decoded EXCEPT ![t] = Append(@, d.len)]
                  /\ thread_reached_addr' =
                       [thread_reached_addr EXCEPT ![t] = @ + d.len]
                  /\ thread_pc' = thread_pc
             ELSE /\ thread_decoded' =
                       [thread_decoded EXCEPT ![t] = Append(@, 0)]
                  /\ thread_reached_addr' = thread_reached_addr
                  /\ thread_pc' = [thread_pc EXCEPT ![t] = "done"]
  /\ UNCHANGED <<thread_block, thread_context_max>>
  /\ UNCHANGED <<block_def, is_sparc, memory, arch_max_inst_size, pc_,
                 reached_addr, ended_on_terminal, decode_failed, inst,
                 lifted_func, bb, return_pc, decoded, applied, type_hints,
                 context_assignments, init_context, contexts>>
  /\ UNCHANGED <<fnVars, packVars, probeVars, runVars, nameVars, providerVars, loopVars, markerVars, declVars, callVars, cmpVars, passVars, statVars, boundVars>>

\* The loop of thread t is over.
ThreadExitStep(t) ==
  /\ thread_pc[t] = "loop"
  /\ ~LoopCondition(thread_reached_addr[t],
                    thread_block[t].addr + thread_block[t].size, FALSE)
  /\ thread_pc' = [thread_pc EXCEPT ![t] = "done"]
  /\ UNCHANGED <<thread_block, thread_context_max, thread_reached_addr,
                 thread_decoded>>
  /\ UNCHANGED <<liftVars, fnVars, packVars, probeVars, runVars, nameVars, providerVars, loopVars, markerVars, declVars, callVars, cmpVars, passVars, statVars, boundVars>>

NextThreads ==
  \/ \E t \in Threads : ThreadDecodeStep(t)
  \/ \E t \in Threads : ThreadExitStep(t)

InitThreadsOnly ==
  InitThreads /\ IdleLift /\ IdleFn /\ IdlePack /\ IdleProbe /\ IdleRun /\ IdleName /\ IdleProvider /\ IdleLoop /\ IdleMarker /\ IdleDecl /\ IdleCall /\ IdleCompare /\ IdlePass /\ IdleStat /\ IdleBound

SpecThreads == InitThreadsOnly /\ [][NextThreads]_vars

\* ------------------------------------------------------------------------
\* TypeProvider::TryGetCalledFunctionType.
\* ------------------------------------------------------------------------

\* Addresses of functions and of call instructions drawn.
ProviderAddrs == {1, 2}

\* A CallableDecl, told apart by where it was declared.
CallSiteDecl(function_address, pc) ==
  [declared |-> "call_site", at |-> <<function_address, pc>>]

\* A FunctionDecl: a CallableDecl with the function's address.
FunctionDecl(address) ==
  [callable |-> [declared |-> "function", at |-> <<address, address>>],
   address |-> address]

NoCallable == [declared |-> "none", at |-> <<0, 0>>]

\* std::nullopt and a std::optional<CallableDecl> that holds a value.
Nullopt == [has_value |-> FALSE, value |-> NoCallable]
Some(decl) == [has_value |-> TRUE, value |-> decl]

\* static_cast<CallableDecl &>(func_decl.value()): the CallableDecl base of
\* the FunctionDecl.
AsCallableDecl(func_decl) == func_decl.callable

\* The providers drawn: a NullTypeProvider, a DefaultCallableTypeProvider
\* with its decl, and SpecificationTypeProviders over any loc_to_call_site
\* and address_to_function maps, given as the sets of their keys.
TypeProviders ==
  {[class |-> "NullTypeProvider", loc_to_call_site |-> {},
    address_to_function |-> {}]}
  \cup {[class |-> "DefaultCallableTypeProvider", loc_to_call_site |-> {},
         address_to_function |-> {}]}
  \cup {[class |-> "SpecificationTypeProvider", loc_to_call_site |-> l,
         address_to_function |-> f] :
          l \in SUBSET (ProviderAddrs \X ProviderAddrs),
          f \in SUBSET ProviderAddrs}

\* The two-argument TryGetCalledFunctionType: lines 78-90 for a
\* SpecificationTypeProvider, lines 116-120 for a
\* DefaultCallableTypeProvider, lines 53-56 otherwise.
TryGetCalledFunctionTypeAt(provider, function_address, from_inst) ==
  IF provider.class = "SpecificationTypeProvider"
  THEN IF <<function_address, from_inst.pc>> \in provider.loc_to_call_site
       THEN Some(CallSiteDecl(function_address, from_inst.pc))
       ELSE Nullopt
  ELSE IF provider.class = "DefaultCallableTypeProvider"
  THEN Some([declared |-> "default", at |-> <<0, 0>>])
  ELSE Nullopt

\* TryGetFunctionType: lines 94-102 for a SpecificationTypeProvider,
\* std::nullopt for the other two classes.
TryGetFunctionType(provider, address) ==
  IF provider.class = "SpecificationTypeProvider"
     /\ address \in provider.address_to_function
  THEN [has_value |-> TRUE, value |-> FunctionDecl(address)]
  ELSE [has_value |-> FALSE, value |-> FunctionDecl(0)]

\* A slip: the function's declaration is preferred to the call site's.
CalledFunctionType_FunctionFirst(decl, func_decl) ==
  IF func_decl.has_value THEN Some(AsCallableDecl(func_decl.value))
  ELSE IF decl.has_value THEN decl
  ELSE Nullopt

\* Lines 43-49: the call site's declaration, else the function's, else
\* nothing.
CalledFunctionType(decl, func_decl) ==
  IF decl.has_value THEN decl
  ELSE IF func_decl.has_value THEN Some(AsCallableDecl(func_decl.value))
  ELSE Nullopt

\* The three-argument TypeProvider::TryGetCalledFunctionType, lines 40-50.
TryGetCalledFunctionType(provider, function_address, from_inst, to_address) ==
  CalledFunctionType(
    TryGetCalledFunctionTypeAt(provider, function_address, from_inst),
    TryGetFunctionType(provider, to_address))

InitProvider ==
  /\ type_provider \in TypeProviders
  /\ tp_query = <<>>
  /\ tp_result = <<>>

\* A call of the three-argument TryGetCalledFunctionType.
GetCalledFunctionType(function_address, pc, to_address) ==
  /\ tp_query' = <<[function_address |-> function_address,
                    from_inst |-> [pc |-> pc], to_address |-> to_address]>>
  /\ tp_result' = <<TryGetCalledFunctionType(
                      type_provider, function_address, [pc |-> pc],
                      to_address)>>
  /\ UNCHANGED type_provider
  /\ UNCHANGED <<liftVars, fnVars, packVars, probeVars, runVars, nameVars, threadVars, loopVars, markerVars, declVars, callVars, cmpVars, passVars, statVars, boundVars>>

NextProvider ==
  \E function_address \in ProviderAddrs, pc \in ProviderAddrs,
     to_address \in ProviderAddrs :
    GetCalledFunctionType(function_address, pc, to_address)

InitProviderOnly ==
  InitProvider /\ IdleLift /\ IdleFn /\ IdlePack /\ IdleProbe /\ IdleRun
  /\ IdleName /\ IdleThreads /\ IdleLoop /\ IdleMarker /\ IdleDecl /\ IdleCall /\ IdleCompare /\ IdlePass /\ IdleStat /\ IdleBound

SpecProvider == InitProviderOnly /\ [][NextProvider]_vars

\* ------------------------------------------------------------------------
\* The decode loop on machine words: reached_addr, block_def.addr and
\* block_def.size are uint64_t, here words of AddrBits bits.
\* ------------------------------------------------------------------------

\* Width of an address, for the 64 of uint64_t.
AddrBits == 3

AddrSpace == 2 ^ AddrBits

\* Unsigned arithmetic of the word: the sum modulo 2^AddrBits.
AddrWord(x) == x % AddrSpace

\* Largest block_def.size of a block.
MaxLoopSize == 2

\* MaxInstructionSize of the architecture.
LoopMaxInstSize == 2

\* The iteration count stops counting here.
MaxIterations == 4

\* Line 359: reached_addr += inst.bytes.size(), on uint64_t.
AdvanceReachedAddr(reached, insn) == AddrWord(reached + insn.len)

\* Line 347: reached_addr < block_def.addr + block_def.size, the sum being
\* the unsigned sum, and no terminal override so far.
LoopConditionWord(reached, blk, terminal) ==
  reached < AddrWord(blk.addr + blk.size) /\ ~terminal

\* Lines 334-346: reached_addr starts at the block's address.
InitLoop ==
  /\ loop_block \in [addr : 0 .. AddrSpace - 1, size : 0 .. MaxLoopSize]
  /\ loop_reached_addr = loop_block.addr
  /\ loop_ended_on_terminal = FALSE
  /\ loop_iterations = 0
  /\ loop_pc = "loop"

\* Lines 347-390, one iteration: the ByteProvider lets some number of bytes
\* be accumulated, the decoder fails (lines 352-357, the function returns)
\* or answers an instruction of the buffer; reached_addr advances, the
\* instruction is lifted and the override says whether the block ends.
LoopIteration ==
  /\ loop_pc = "loop"
  /\ LoopConditionWord(loop_reached_addr, loop_block, loop_ended_on_terminal)
  /\ loop_iterations' =
       IF loop_iterations < MaxIterations THEN loop_iterations + 1
       ELSE loop_iterations
  /\ \E n \in 0 .. LoopMaxInstSize :
       \E res \in DecodeInstruction(loop_reached_addr, [i \in 1 .. n |-> 0]) :
         IF ~res.ok
         THEN /\ loop_pc' = "done"
              /\ UNCHANGED <<loop_reached_addr, loop_ended_on_terminal>>
         ELSE /\ loop_reached_addr' =
                   AdvanceReachedAddr(loop_reached_addr, res)
              /\ loop_ended_on_terminal' \in BOOLEAN
              /\ loop_pc' = "loop"
  /\ UNCHANGED loop_block
  /\ UNCHANGED <<liftVars, fnVars, packVars, probeVars, runVars, nameVars, threadVars, providerVars, markerVars, declVars, callVars, cmpVars, passVars, statVars, boundVars>>

\* Lines 347-348 and 392-402: the loop condition fails and the function
\* goes on to its end.
LoopExit ==
  /\ loop_pc = "loop"
  /\ ~LoopConditionWord(loop_reached_addr, loop_block, loop_ended_on_terminal)
  /\ loop_pc' = "done"
  /\ UNCHANGED <<loop_block, loop_reached_addr, loop_ended_on_terminal,
                 loop_iterations>>
  /\ UNCHANGED <<liftVars, fnVars, packVars, probeVars, runVars, nameVars, threadVars, providerVars, markerVars, declVars, callVars, cmpVars, passVars, statVars, boundVars>>

NextLoop == LoopIteration \/ LoopExit

InitLoopOnly ==
  InitLoop /\ IdleLift /\ IdleFn /\ IdlePack /\ IdleProbe /\ IdleRun
  /\ IdleName /\ IdleThreads /\ IdleProvider /\ IdleMarker /\ IdleDecl /\ IdleCall /\ IdleCompare /\ IdlePass /\ IdleStat /\ IdleBound

\* The function is a sequential program: while a step is possible, one is
\* taken.
SpecLoop == InitLoopOnly /\ [][NextLoop]_vars /\ WF_vars(NextLoop)

\* ------------------------------------------------------------------------
\* DecodeInstructionInto, call after call in one process.
\* ------------------------------------------------------------------------

\* Largest maximum instruction length of a decoding context.
MaxProbeLen == 2

\* Most calls of one process looked at.
MaxCalls == 2

\* The addresses the ByteProvider answers for.
DecodeAddrs == 0 .. MaxProbeLen

\* Every answer of the ByteProvider at every address; the byte at address a
\* is a + 1.
DecodeMemories ==
  {[a \in DecodeAddrs |-> [byte |-> a + 1, accessible |-> f[a][1],
                           perms |-> f[a][2]]] :
     f \in [DecodeAddrs -> ByteAvailability \X BytePermission]}

\* A process that has decoded nothing yet: the static of line 260 is not
\* initialised.
InitDecode ==
  /\ block_def = [addr |-> 0, size |-> 0]
  /\ is_sparc = FALSE
  /\ memory \in DecodeMemories
  /\ arch_max_inst_size = MaxInstSize
  /\ max_inst_size = 0
  /\ pc_ = "idle"
  /\ reached_addr = 0
  /\ ended_on_terminal = FALSE
  /\ decode_failed = FALSE
  /\ inst = NoInst
  /\ lifted_func = <<>>
  /\ bb = 0
  /\ return_pc = Unknown
  /\ decoded = <<>>
  /\ applied = <<>>
  /\ type_hints = <<>>
  /\ context_assignments = [k \in {} |-> 0]
  /\ init_context = [k \in {} |-> 0]
  /\ contexts = <<>>
  /\ IdleProbe

\* DecodeInstructionInto(addr, false, &inst, context) by a lifter whose
\* decoding context has maximum instruction length ctx_max.
DecodeInstructionInto(addr, ctx_max) ==
  /\ calls < MaxCalls
  /\ LET limit == StaticMaxInstSize(max_inst_size, ctx_max)
         bytes == AccumulateBytes(memory, addr, 0, limit)
     IN /\ max_inst_size' = limit
        /\ inst_bytes' = bytes
        /\ queried' = QueryCount(memory, addr, limit)
        /\ \E res \in DecodeInstruction(addr, bytes) :
             result' = [kind |-> "decode", ok |-> res.ok]
  /\ context_max' = ctx_max
  /\ calls' = calls + 1
  /\ UNCHANGED <<block_def, is_sparc, memory, arch_max_inst_size, pc_,
                 reached_addr, ended_on_terminal, decode_failed, inst,
                 lifted_func, bb, return_pc, decoded, applied, type_hints,
                 context_assignments, init_context, contexts>>
  /\ UNCHANGED <<fnVars, packVars, runVars, nameVars, threadVars, providerVars, loopVars, markerVars, declVars, callVars, cmpVars, passVars, statVars, boundVars>>

NextDecode == \E ctx_max \in 1 .. MaxProbeLen : DecodeInstructionInto(0, ctx_max)

InitDecodeOnly == InitDecode /\ IdleFn /\ IdlePack /\ IdleRun /\ IdleName /\ IdleThreads /\ IdleProvider /\ IdleLoop /\ IdleMarker /\ IdleDecl /\ IdleCall /\ IdleCompare /\ IdlePass /\ IdleStat /\ IdleBound

SpecDecode == InitDecodeOnly /\ [][NextDecode]_vars

\* ------------------------------------------------------------------------
\* DoInterProceduralControlFlow on its own, over the bytes after a call.
\* ------------------------------------------------------------------------

\* Most bytes after the call that are not zero, available and executable.
MaxOddBytes == 2

\* The call instruction looked at: one byte at address 0, so that execution
\* nominally resumes at address 1.
CallInst == [ok |-> TRUE, pc |-> 0, len |-> 1, cond |-> FALSE, iscall |-> TRUE,
             branch_not_taken_pc |-> 1]

\* The four bytes LoadFunctionReturnAddress inspects.
ReturnAddrs == {CallInst.branch_not_taken_pc + i : i \in 0 .. 3}

\* What an odd byte may be: a zero byte of any availability and permission,
\* or an available, executable byte that sets op (64) or op2 (1).
OddCells ==
  {[byte |-> 0, accessible |-> x, perms |-> y] :
     x \in ByteAvailability, y \in BytePermission}
  \cup {[GoodCell EXCEPT !.byte = v] : v \in {1, 64}}

ReturnMemories ==
  UNION {{[a \in ReturnAddrs |-> IF a \in D THEN f[a] ELSE GoodCell] :
            f \in [D -> OddCells]} :
         D \in {X \in SUBSET ReturnAddrs : Cardinality(X) <= MaxOddBytes}}

\* The semantics of the call instruction have been lifted into a block and
\* have saved its fall-through address in RETURN_PC.
InitReturn ==
  /\ block_def = [addr |-> 0, size |-> 1]
  /\ is_sparc \in BOOLEAN
  /\ memory \in ReturnMemories
  /\ arch_max_inst_size = MaxInstSize
  /\ max_inst_size = 0
  /\ pc_ = "idle"
  /\ reached_addr = 1
  /\ ended_on_terminal = FALSE
  /\ decode_failed = FALSE
  /\ inst = CallInst
  /\ lifted_func = << <<Op("semantics", "", "", 0)>> >>
  /\ bb = 1
  /\ return_pc = CallInst.branch_not_taken_pc
  /\ decoded = <<CallInst>>
  /\ applied = <<>>
  /\ type_hints = <<>>
  /\ context_assignments = [k \in {} |-> 0]
  /\ init_context = [k \in {} |-> 0]
  /\ contexts = <<>>
  /\ IdleProbe

\* DoInterProceduralControlFlow(inst, block, override) after the call.
ControlFlowAfterCall(override) ==
  /\ calls = 0
  /\ LET res == DoInterProceduralControlFlow(
                   lifted_func, inst, bb, override, return_pc, is_sparc,
                   memory)
     IN /\ lifted_func' = res.f
        /\ ended_on_terminal' = ~res.ret
        /\ result' = [kind |-> "flow", override |-> override, ret |-> res.ret,
                      raddr |-> LoadFunctionReturnAddress(
                                  inst, return_pc, is_sparc, memory)]
  /\ calls' = 1
  /\ UNCHANGED <<block_def, is_sparc, memory, arch_max_inst_size,
                 max_inst_size, pc_, reached_addr, decode_failed, inst, bb,
                 return_pc, decoded, applied, type_hints,
                 context_assignments, init_context, contexts>>
  /\ UNCHANGED <<context_max, inst_bytes, queried>>
  /\ UNCHANGED <<fnVars, packVars, runVars, nameVars, threadVars, providerVars, loopVars, markerVars, declVars, callVars, cmpVars, passVars, statVars, boundVars>>

NextReturn == \E override \in Overrides : ControlFlowAfterCall(override)

InitReturnOnly == InitReturn /\ IdleFn /\ IdlePack /\ IdleRun /\ IdleName /\ IdleThreads /\ IdleProvider /\ IdleLoop /\ IdleMarker /\ IdleDecl /\ IdleCall /\ IdleCompare /\ IdlePass /\ IdleStat /\ IdleBound

SpecReturn == InitReturnOnly /\ [][NextReturn]_vars

\* ------------------------------------------------------------------------
\* LoadFunctionReturnAddress on its own, over the word after a call and the
\* layout of Format0a.
\* ------------------------------------------------------------------------

\* Lines 128-137 and 153: enc.u is read after enc.flat was written, and the
\* place of a bit field in its word is the choice of the build's ABI: the
\* first field in the low bits (little-endian targets) or in the high bits
\* (big-endian targets).
BitFieldOrders == {"lsb_first", "msb_first"}

\* enc.flat of lines 139-145 as its two 16-bit halves: bits 31..16 from
\* bytes[0] and bytes[1], bits 15..0 from bytes[2] and bytes[3].
EncHalves(mem, pc) ==
  [hi |-> Query(mem, pc).byte * 256 + Query(mem, pc + 1).byte,
   lo |-> Query(mem, pc + 2).byte * 256 + Query(mem, pc + 3).byte]

\* enc.u.op, the last of the fields imm22:22, op2:3, rd:5, op:2: bits 31..30
\* of the word, or bits 1..0.
EncOpOn(order, enc) ==
  IF order = "lsb_first" THEN (enc.hi \div 16384) % 4 ELSE enc.lo % 4

\* enc.u.op2, the second of the fields: bits 24..22 of the word, or bits
\* 9..7.
EncOp2On(order, enc) ==
  IF order = "lsb_first" THEN (enc.hi \div 64) % 8 ELSE (enc.lo \div 128) % 8

\* The values a byte of the word takes: each sets one bit, or none.
MarkerByteValues == {0, 1, 64, 128}

\* What the ByteProvider may answer for one of the four bytes: an available,
\* executable byte of one of the values, an unavailable byte, or a byte that
\* is readable only.
MarkerCells ==
  {[GoodCell EXCEPT !.byte = v] : v \in MarkerByteValues}
  \cup {[GoodCell EXCEPT !.perms = "kReadableWritableExecutable"],
        UnmappedCell,
        [GoodCell EXCEPT !.perms = "kReadable"]}

\* Number of memory_provider.Query calls of lines 94-126.
ReturnAddressQueries(sparc, mem, pc) ==
  IF ~InspectsMarker(sparc) THEN 0
  ELSE IF \E i \in 0 .. 3 : ~ReturnByteOk(Query(mem, pc + i))
       THEN 1 + CHOOSE i \in 0 .. 3 :
                  /\ ~ReturnByteOk(Query(mem, pc + i))
                  /\ \A j \in 0 .. i - 1 : ReturnByteOk(Query(mem, pc + j))
       ELSE 4

\* Line 153: !enc.u.op && !enc.u.op2.
IsMarkerWord(order, enc) ==
  EncOpOn(order, enc) = 0 /\ EncOp2On(order, enc) = 0

\* Lines 85-164 on a build of the given bit-field order: the pair returned.
LoadFunctionReturnAddressOn(order, insn, rpc, sparc, mem) ==
  LET pc == insn.branch_not_taken_pc
      plain == [addr |-> pc, val |-> rpc, corrected |-> FALSE]
  IN IF ~InspectsMarker(sparc) THEN plain
     ELSE IF \E i \in 0 .. 3 : ~ReturnByteOk(Query(mem, pc + i)) THEN plain
     ELSE IF IsMarkerWord(order, EncHalves(mem, pc))
          THEN [addr |-> pc + 4, val |-> rpc + 4, corrected |-> TRUE]
          ELSE plain

InitMarker ==
  /\ marker_sparc \in BOOLEAN
  /\ marker_layout \in BitFieldOrders
  /\ marker_memory \in [ReturnAddrs -> MarkerCells]
  /\ marker_result = [kind |-> "none"]

\* LoadFunctionReturnAddress(inst, block) for the call instruction, whose
\* semantics saved branch_not_taken_pc in RETURN_PC.
LoadReturnAddress ==
  /\ marker_result.kind = "none"
  /\ marker_result' =
       [kind |-> "pair",
        pair |-> LoadFunctionReturnAddressOn(
                   marker_layout, CallInst, CallInst.branch_not_taken_pc,
                   marker_sparc, marker_memory),
        queries |-> ReturnAddressQueries(
                      marker_sparc, marker_memory,
                      CallInst.branch_not_taken_pc)]
  /\ UNCHANGED <<marker_sparc, marker_layout, marker_memory>>
  /\ UNCHANGED <<liftVars, fnVars, packVars, probeVars, runVars, nameVars, threadVars, providerVars, loopVars, declVars, callVars, cmpVars, passVars, statVars, boundVars>>

NextMarker == LoadReturnAddress

InitMarkerOnly ==
  InitMarker /\ IdleLift /\ IdleFn /\ IdlePack /\ IdleProbe /\ IdleRun
  /\ IdleName /\ IdleThreads /\ IdleProvider /\ IdleLoop /\ IdleDecl /\ IdleCall /\ IdleCompare /\ IdlePass /\ IdleStat /\ IdleBound

SpecMarker == InitMarkerOnly /\ [][NextMarker]_vars

\* ------------------------------------------------------------------------
\* The decode loop over the type hints of a function.
\* ------------------------------------------------------------------------

\* Longest list of type hints drawn.
MaxHints == 3

\* Target addresses of the hints: those of the block's instructions and
\* the one after them.
HintAddrs == {a + i : a \in BlockAddrs, i \in 0 .. MaxSize}

\* decl.type_hints: lists sorted by target address; a hint is known by its
\* place in the list.
HintLists ==
  {[i \in 1 .. Len(q) |-> [target_addr |-> q[i], hint |-> i]] :
     q \in {x \in SeqsUpTo(HintAddrs, MaxHints) :
              \A i \in 1 .. Len(x) - 1 : x[i] <= x[i + 1]}}

\* A block of readable, executable bytes of a function with type hints.
InitLiftHints ==
  /\ block_def \in [addr : BlockAddrs, size : 1 .. MaxSize]
  /\ is_sparc = FALSE
  /\ memory = AllGood
  /\ arch_max_inst_size = MaxInstSize
  /\ max_inst_size = 0
  /\ pc_ = "decode"
  /\ reached_addr = block_def.addr
  /\ ended_on_terminal = FALSE
  /\ decode_failed = FALSE
  /\ inst = NoInst
  /\ lifted_func = <<  <<Op("br", "", "", 2)>>, <<>>  >>
  /\ bb = 2
  /\ return_pc = Unknown
  /\ decoded = <<>>
  /\ applied = <<>>
  /\ type_hints \in HintLists
  /\ context_assignments = [k \in {} |-> 0]
  /\ init_context = CreateDecodingContext(context_assignments)
  /\ contexts = <<>>

InitHints == InitLiftHints /\ IdleFn /\ IdlePack /\ IdleProbe /\ IdleRun /\ IdleName /\ IdleThreads /\ IdleProvider /\ IdleLoop /\ IdleMarker /\ IdleDecl /\ IdleCall /\ IdleCompare /\ IdlePass /\ IdleStat /\ IdleBound

SpecHints == InitHints /\ [][DecodeStep \/ LiftStep \/ ExitStep]_vars

\* ------------------------------------------------------------------------
\* The decode loop over the context assignments of a block.
\* ------------------------------------------------------------------------

ContextKeys == {"TMReg", "VLEReg"}

ContextValues == {0, 1}

\* block_def.context_assignments: any values for any of the keys.
ContextAssignments ==
  UNION {[D -> ContextValues] : D \in SUBSET ContextKeys}

\* A block of readable, executable bytes with context assignments.
InitLiftContext ==
  /\ block_def \in [addr : BlockAddrs, size : 1 .. MaxSize]
  /\ is_sparc = FALSE
  /\ memory = AllGood
  /\ arch_max_inst_size = MaxInstSize
  /\ max_inst_size = 0
  /\ pc_ = "decode"
  /\ reached_addr = block_def.addr
  /\ ended_on_terminal = FALSE
  /\ decode_failed = FALSE
  /\ inst = NoInst
  /\ lifted_func = <<  <<Op("br", "", "", 2)>>, <<>>  >>
  /\ bb = 2
  /\ return_pc = Unknown
  /\ decoded = <<>>
  /\ applied = <<>>
  /\ type_hints = <<>>
  /\ context_assignments \in ContextAssignments
  /\ init_context = CreateDecodingContext(context_assignments)
  /\ contexts = <<>>

InitContext == InitLiftContext /\ IdleFn /\ IdlePack /\ IdleProbe /\ IdleRun /\ IdleName /\ IdleThreads /\ IdleProvider /\ IdleLoop /\ IdleMarker /\ IdleDecl /\ IdleCall /\ IdleCompare /\ IdlePass /\ IdleStat /\ IdleBound

SpecContext == InitContext /\ [][DecodeStep \/ LiftStep \/ ExitStep]_vars

Init == InitLift /\ IdleFn /\ IdlePack /\ IdleProbe /\ IdleRun /\ IdleName /\ IdleThreads /\ IdleProvider /\ IdleLoop /\ IdleMarker /\ IdleDecl /\ IdleCall /\ IdleCompare /\ IdlePass /\ IdleStat /\ IdleBound

Next == DecodeStep \/ LiftStep \/ ExitStep

Spec == Init /\ [][Next]_vars

\* ------------------------------------------------------------------------
\* Properties of the decode loop.
\* ------------------------------------------------------------------------

RECURSIVE SumLen(_)
SumLen(seq) == IF seq = <<>> THEN 0 ELSE Head(seq).len + SumLen(Tail(seq))

\* Number of operations of a block that satisfy P.
CountOps(blk, P(_)) == Cardinality({k \in 1 .. Len(blk) : P(blk[k])})

IsSemantics(o) == o.op = "semantics"
IsIntrinsicCall(o) == o.op = "call" /\ o.dst = "function_call"
IsStoreNextPC(o) == o.op = "store" /\ o.dst = "NEXT_PC"
IsStorePC(o) == o.op = "store" /\ o.dst = "PC"
IsStoreShouldReturn(o) == o.op = "store" /\ o.dst = "should_return"
IsFallThroughStore(o) == o.op = "store" /\ o.dst = "next_pc_out"
IsTrap(o) == o.op = "error_tail"
IsOverrideOp(o) == IsIntrinsicCall(o) \/ IsStoreNextPC(o) \/ IsStorePC(o)
                   \/ IsStoreShouldReturn(o) \/ IsTrap(o)

\* Position of the semantics of the instruction at pc in a block (0: none).
SemanticsAt(blk, pc) ==
  IF \E k \in 1 .. Len(blk) : IsSemantics(blk[k]) /\ blk[k].v = pc
  THEN CHOOSE k \in 1 .. Len(blk) : IsSemantics(blk[k]) /\ blk[k].v = pc
  ELSE 0

\* What lifting the i-th instruction appended to the block it was lifted
\* into, after the instruction's semantics and type hints.
AfterSemantics(i) ==
  SubSeq(applied[i].emitted, 2 + applied[i].hints, Len(applied[i].emitted))

\* The operations the i-th override was applied with: the taken block of a
\* split, else what follows the instruction's semantics.
OverrideOps(i) ==
  IF applied[i].taken # 0 THEN lifted_func[applied[i].taken]
  ELSE AfterSemantics(i)

\* The fall-through exit of lines 392-401 is in the function.
HasFallThroughExit ==
  \E b \in 1 .. Len(lifted_func) :
    /\ Len(lifted_func[b]) >= 4
    /\ lifted_func[b][Len(lifted_func[b])].op = "ret"
    /\ IsFallThroughStore(lifted_func[b][Len(lifted_func[b]) - 2])

FallThroughExits ==
  Cardinality(UNION {{<<b, k>> : k \in {x \in 1 .. Len(lifted_func[b]) :
                                         IsFallThroughStore(lifted_func[b][x])}} :
                     b \in 1 .. Len(lifted_func)})

IsInterProc(i) == applied[i].override.kind \in {"Call", "Return"}

C8_ConditionalSplit ==
  \A i \in 1 .. Len(applied) :
    (IsInterProc(i) /\ applied[i].cond) =>
      LET a == applied[i]
          from == lifted_func[a.from]
          taken == lifted_func[a.taken]
          terminating == a.override.kind = "Call" /\ a.override.stop
      IN /\ a.blocks_after = a.blocks_before + 2
         /\ a.taken = a.blocks_before + 1
         /\ a.cont = a.blocks_before + 2
         /\ a.taken # a.cont /\ a.taken # a.from /\ a.cont # a.from
         /\ from[Len(from)].op = "condbr"
         /\ from[Len(from)].src = "BRANCH_TAKEN"
         /\ from[Len(from)].v = a.taken
         /\ from[Len(from)].w = a.cont
         /\ CountOps(AfterSemantics(i), IsOverrideOp) = 0
         /\ CountOps(taken, IsSemantics) = 0
         /\ (a.override.kind = "Call") =>
              /\ CountOps(taken, IsIntrinsicCall) = 1
              /\ CountOps(taken, IsStoreShouldReturn) = 0
         /\ (a.override.kind = "Return") =>
              /\ CountOps(taken, IsStoreShouldReturn) = 1
              /\ CountOps(taken, IsIntrinsicCall) = 0
         /\ (taken[Len(taken)].op = "br" /\ taken[Len(taken)].v = a.cont)
              <=> ~terminating
         /\ terminating =>
              /\ taken[Len(taken)].op = "error_tail"
              /\ \A k \in 1 .. Len(taken) : taken[k].op # "br"
         /\ \A b \in 1 .. Len(lifted_func) : \A k \in 1 .. Len(lifted_func[b]) :
              ~(lifted_func[b][k].op = "br" /\ lifted_func[b][k].v = a.taken)

\* A conditional instruction carried a Call override with stop, and another
\* one a Call or Return override that does not end its block.
C8_Witness ==
  /\ \E i \in 1 .. Len(applied) :
       /\ applied[i].cond /\ applied[i].override.kind = "Call"
       /\ applied[i].override.stop
  /\ \E i \in 1 .. Len(applied) :
       /\ applied[i].cond /\ IsInterProc(i) /\ ~applied[i].override.stop

\* C9: a Call or Return override on a conditional instruction never ends the
\* block: the function returns true, the loop's flag stays false, the next
\* instruction (or the fall-through exit) goes into the continuation.
C9_ConditionalNeverTerminal ==
  \A i \in 1 .. Len(applied) :
    (IsInterProc(i) /\ applied[i].cond) =>
      /\ applied[i].ret
      /\ i = Len(applied) =>
           /\ ~ended_on_terminal
           /\ bb = applied[i].cont
           /\ pc_ = "done" =>
                /\ ~decode_failed => HasFallThroughExit
                /\ IsTerminated(lifted_func[applied[i].cont])
      /\ i < Len(applied) =>
           /\ applied[i + 1].from = applied[i].cont
           /\ SemanticsAt(lifted_func[applied[i].cont], applied[i + 1].pc) = 1

\* A conditional instruction carried a Call override with stop and the next
\* instruction was lifted into the continuation.
C9_Witness ==
  \E i \in 1 .. Len(applied) :
    /\ applied[i].cond /\ applied[i].override.kind = "Call"
    /\ applied[i].override.stop
    /\ i < Len(applied)
    /\ SemanticsAt(lifted_func[applied[i].cont], applied[i + 1].pc) = 1

C11_CallStopIsTerminal ==
  \A i \in 1 .. Len(applied) :
    (/\ applied[i].override.kind = "Call" /\ applied[i].override.stop
     /\ ~applied[i].cond) =>
      LET ops == AfterSemantics(i)
          blk == lifted_func[applied[i].from]
      IN /\ CountOps(ops, IsIntrinsicCall) = 1
         /\ \A k \in 1 .. Len(ops) : IsIntrinsicCall(ops[k]) => ops[k].noreturn
         /\ Len(ops) > 0 /\ IsTrap(ops[Len(ops)])
         /\ IsTrap(blk[Len(blk)])
         /\ CountOps(ops, IsTrap) = 1
         /\ CountOps(ops, IsStoreNextPC) = 0
         /\ CountOps(ops, IsStorePC) = 0
         /\ applied[i].blocks_after = applied[i].blocks_before
         /\ ~applied[i].ret
         /\ ended_on_terminal
         /\ i = Len(applied) /\ Len(decoded) = i
         /\ pc_ \in {"decode", "done"}
         /\ ~decode_failed
         /\ ~HasFallThroughExit
         /\ FallThroughExits = 0

\* A Call override with stop was applied to the first, unconditional,
\* instruction of a block with bytes left, and the lift of the block ended.
C11_Witness ==
  /\ pc_ = "done" /\ Len(applied) = 1
  /\ applied[1].override.kind = "Call" /\ applied[1].override.stop
  /\ ~applied[1].cond
  /\ reached_addr < BlockEnd

\* C13: when decoding fails, the block being lifted into is ended with the
\* error trap and the lift of the block is over at once: nothing is lifted
\* or applied for the failing address, no later instruction is decoded, no
\* fall-through exit is emitted; and the function left behind is well formed
\* (every block ends with a terminator), so that LiftBasicBlockFunction
\* goes on to its end.
C13_DecodeFailureTrapsAndStops ==
  decode_failed =>
    /\ pc_ = "done"
    /\ ~inst.ok /\ inst.pc = reached_addr
    /\ reached_addr < BlockEnd /\ ~ended_on_terminal
    /\ Len(lifted_func[bb]) > 0
    /\ IsTrap(lifted_func[bb][Len(lifted_func[bb])])
    /\ CountOps(lifted_func[bb], IsTrap) = 1
    /\ \A b \in 1 .. Len(lifted_func) :
         /\ IsTerminated(lifted_func[b])
         /\ \A k \in 1 .. Len(lifted_func[b]) :
              ~(IsSemantics(lifted_func[b][k])
                  /\ lifted_func[b][k].v >= reached_addr)
    /\ Len(applied) = Len(decoded)
    /\ \A i \in 1 .. Len(applied) : applied[i].pc < reached_addr
    /\ \A i \in 1 .. Len(decoded) : decoded[i].pc < reached_addr
    /\ ~HasFallThroughExit
    /\ FallThroughExits = 0

\* Decoding failed at the second instruction of a block.
C13_Witness ==
  /\ decode_failed /\ pc_ = "done"
  /\ Len(decoded) = 1 /\ Len(applied) = 1
  /\ reached_addr > block_def.addr

\* C16: when the loop has ended on the exhausted byte range, without a
\* terminal override and without a decode failure, the function holds
\* exactly one fall-through exit, at the end of the block lifted into: the
\* loaded NEXT_PC is stored into the next-address output and the loaded
\* memory pointer is returned. When a terminal override ended the loop, and
\* while the loop runs, there is no fall-through exit.
C16_FallThroughExit ==
  /\ (pc_ = "done" /\ ~ended_on_terminal /\ ~decode_failed) =>
       LET blk == lifted_func[bb]
           n == Len(blk)
       IN /\ reached_addr >= BlockEnd
          /\ FallThroughExits = 1
          /\ n >= 4
          /\ blk[n - 3] = Op("load", "", "NEXT_PC", Unknown)
          /\ blk[n - 2] = Op("store", "next_pc_out", "NEXT_PC", Unknown)
          /\ blk[n - 1] = Op("load", "", "MEMORY", Unknown)
          /\ blk[n] = Op("ret", "", "MEMORY", Unknown)
          /\ \A b \in 1 .. Len(lifted_func) :
               CountOps(lifted_func[b], LAMBDA o : o.op = "ret")
                 = IF b = bb THEN 1 ELSE 0
  /\ (pc_ = "done" /\ ended_on_terminal) =>
       /\ FallThroughExits = 0
       /\ \A b \in 1 .. Len(lifted_func) :
            CountOps(lifted_func[b], LAMBDA o : o.op = "ret") = 0
       /\ Len(lifted_func[bb]) > 0
       /\ IsTrap(lifted_func[bb][Len(lifted_func[bb])])
  /\ pc_ # "done" => FallThroughExits = 0

\* Two instructions were lifted, the byte range is exhausted and the block
\* ended with the fall-through exit.
C16_Witness ==
  /\ pc_ = "done" /\ ~ended_on_terminal /\ ~decode_failed
  /\ Len(decoded) = 2
  /\ FallThroughExits = 1

\* ------------------------------------------------------------------------
\* Properties of the successor dispatch and of the lifter cache.
\* ------------------------------------------------------------------------

LiftersOf(u) == {i \in 1 .. Len(lifters) : lifters[i].uid = u}

BlockFunctionsOf(u) ==
  {i \in 1 .. Len(functions) : functions[i].kind = "bb" /\ functions[i].uid = u}

\* C3: the switch of a lifted block with N successors has N cases and the
\* invalid_successor default, which is unreachable; the case values are
\* pairwise distinct; each is the start address of its successor; a value
\* that is no successor's address goes to the default.
C3_DispatchCases ==
  \A u \in lifted :
    LET sw == switches[u]
        succ == cfg[u].outgoing_edges
    IN /\ Len(sw.cases) = Cardinality(succ)
       /\ sw.default = "invalid_successor"
       /\ sw.invalid_successor = "unreachable"
       /\ {sw.cases[k].uid : k \in 1 .. Len(sw.cases)} = succ
       /\ \A k \in 1 .. Len(sw.cases) :
            sw.cases[k].value = cfg[sw.cases[k].uid].addr
       /\ \A j, k \in 1 .. Len(sw.cases) :
            j # k => sw.cases[j].value # sw.cases[k].value
       /\ \A a \in FnAddrs \cup {0} :
            (Dispatch(sw, a) = 0) <=> (\A e \in succ : cfg[e].addr # a)

\* C4: no more lifters are ever constructed than the function has blocks,
\* and lifting every block ends, also when blocks are each other's
\* successors.
C4_CycleTerminates ==
  /\ [](Len(lifters) <= Cardinality(DOMAIN cfg))
  /\ [](cur # 0 => cur \notin lifted)
  /\ <>(lifted = DOMAIN cfg /\ cur = 0)

\* Two blocks that are each other's successors have both been lifted.
C4_Witness ==
  /\ lifted = DOMAIN cfg /\ cur = 0
  /\ \E a, b \in DOMAIN cfg :
       /\ a # b
       /\ b \in cfg[a].outgoing_edges /\ a \in cfg[b].outgoing_edges
       /\ \E k \in 1 .. Len(switches[a].cases) : switches[a].cases[k].uid = b
       /\ \E k \in 1 .. Len(switches[b].cases) : switches[b].cases[k].uid = a

\* C5: there is at most one lifter per uid; every uid with a lifter has
\* exactly one declared block function, the lifter's bb_func; every
\* forwarding block calls the declared block function of the one lifter of
\* its successor, also when that successor is the block being lifted.
C5_OneLifterPerUid ==
  /\ \A u \in DOMAIN cfg : Cardinality(LiftersOf(u)) <= 1
  /\ \A u \in DOMAIN bb_lifters :
       /\ LiftersOf(u) = {bb_lifters[u]}
       /\ BlockFunctionsOf(u) = {lifters[bb_lifters[u]].bb_func}
  /\ \A u \in DOMAIN cfg : u \notin DOMAIN bb_lifters => BlockFunctionsOf(u) = {}
  /\ \A u \in DOMAIN switches : \A k \in 1 .. Len(switches[u].cases) :
       LET c == switches[u].cases[k]
       IN /\ c.uid \in DOMAIN bb_lifters
          /\ c.call.callee = lifters[bb_lifters[c.uid]].bb_func
          /\ c.call.callee \in BlockFunctionsOf(c.uid)

\* A block under construction asked for its own lifter: its switch has a
\* case that calls its own block function.
C5_Witness ==
  /\ cur # 0
  /\ \E k \in 1 .. Len(switches[cur].cases) :
       /\ switches[cur].cases[k].uid = cur
       /\ switches[cur].cases[k].call.callee = lifters[bb_lifters[cur]].bb_func
  /\ Cardinality(DOMAIN bb_lifters) > 1

\* ------------------------------------------------------------------------
\* Live values.
\* ------------------------------------------------------------------------

\* The variable has a register and a memory location.
IsSplit(param) ==
  /\ \E k \in 1 .. Len(param.oredered_locs) : param.oredered_locs[k].mem
  /\ \E k \in 1 .. Len(param.oredered_locs) : param.oredered_locs[k].reg # 0

IsMemoryResident(param) ==
  \A k \in 1 .. Len(param.oredered_locs) : param.oredered_locs[k].mem

NoSplitVariable == \A i \in 1 .. Len(decls) : ~IsSplit(decls[i])

\* The register locations of the list: <<variable, location>> positions.
RegisterLocations ==
  {p \in (1 .. Len(decls)) \X (1 .. MaxLocs + 1) :
     /\ p[2] <= Len(decls[p[1]].oredered_locs)
     /\ decls[p[1]].oredered_locs[p[2]].reg # 0}

\* No register is a location twice in the list.
RegistersDisjoint ==
  \A p, q \in RegisterLocations :
    p # q => decls[p[1]].oredered_locs[p[2]].reg
               # decls[q[1]].oredered_locs[q[2]].reg

ByteUsable(cell) ==
  /\ cell.accessible = "kAvailable"
  /\ cell.perms \notin {"kReadable", "kReadableWritable"}

\* Length of the longest prefix of usable bytes at addr, at most limit.
UsablePrefix(addr, limit) ==
  CHOOSE n \in 0 .. limit :
    /\ \A i \in 0 .. n - 1 : ByteUsable(Query(memory, addr + i))
    /\ n < limit => ~ByteUsable(Query(memory, addr + n))

\* C12: the buffer handed to the decoder at address a is the longest prefix
\* of the bytes at a, a+1, ... of length at most max_inst_size in which
\* every byte is available and not known to be non-executable; the bytes
\* are those of the ByteProvider, in order, and none at or after the first
\* failing byte is in it.
C12_LongestUsablePrefix ==
  result.kind = "decode" =>
    LET n == UsablePrefix(0, max_inst_size)
    IN /\ Len(inst_bytes) = n
       /\ Len(inst_bytes) <= max_inst_size
       /\ \A i \in 1 .. n : inst_bytes[i] = Query(memory, i - 1).byte
       /\ \A i \in 0 .. max_inst_size - 1 :
            ~ByteUsable(Query(memory, i)) => Len(inst_bytes) <= i
       /\ (n = 0) => ~result.ok

\* The second byte is the first failing one, the third is usable again, and
\* decoding was attempted on the one byte before it.
C12_Witness ==
  /\ result.kind = "decode"
  /\ max_inst_size >= 2
  /\ ByteUsable(Query(memory, 0))
  /\ ~ByteUsable(Query(memory, 1))
  /\ ByteUsable(Query(memory, 2))
  /\ Query(memory, 1).accessible = "kAvailable"
  /\ inst_bytes = <<Query(memory, 0).byte>>
  /\ result.ok

\* C18: in every decode attempt the number of bytes requested from the
\* ByteProvider is at most the maximum instruction length of the decoding
\* context of the call, whatever was decoded before.
C18_RequestBoundedByOwnContext ==
  result.kind = "decode" =>
    /\ queried <= context_max
    /\ Len(inst_bytes) <= context_max

\* ------------------------------------------------------------------------
\* Properties of the return address of a call.
\* ------------------------------------------------------------------------

\* The byte is unavailable, of unknown availability, or known to be
\* non-executable.
ByteUnusable(cell) ==
  \/ cell.accessible \in {"kUnknown", "kUnavailable"}
  \/ cell.perms \in {"kReadable", "kReadableWritable"}

\* C14: on SPARC, when one of the four bytes at the call's nominal
\* fall-through address is unavailable, of unknown availability or known to
\* be non-executable, a Call override without stop resumes at the
\* uncorrected fall-through address with the unmodified RETURN_PC value:
\* nothing is added to it, it is what is stored into NEXT_PC and PC, no trap
\* is emitted and the block is not ended.
C14_UnreadableMarkerFallsBack ==
  (/\ result.kind = "flow"
   /\ result.override.kind = "Call" /\ ~result.override.stop
   /\ is_sparc
   /\ \E a \in ReturnAddrs : ByteUnusable(Query(memory, a))) =>
     LET ops == lifted_func[bb]
     IN /\ result.raddr.addr = inst.branch_not_taken_pc
        /\ result.raddr.val = return_pc
        /\ ~result.raddr.corrected
        /\ \A k \in 1 .. Len(ops) : ops[k].op # "add"
        /\ CountOps(ops, IsStoreNextPC) = 1
        /\ CountOps(ops, IsStorePC) = 1
        /\ \A k \in 1 .. Len(ops) :
             (IsStoreNextPC(ops[k]) \/ IsStorePC(ops[k]))
               => ops[k].v = inst.branch_not_taken_pc /\ ops[k].src = "RETURN_PC"
        /\ CountOps(ops, IsTrap) = 0
        /\ result.ret
        /\ ~ended_on_terminal

\* On SPARC the four bytes after the call are zero, as those of a marker,
\* the third of them is available but readable only, and the call resumed
\* at the uncorrected address.
C14_Witness ==
  /\ result.kind = "flow" /\ is_sparc
  /\ result.override.kind = "Call" /\ ~result.override.stop
  /\ \A a \in ReturnAddrs : Query(memory, a).byte = 0
  /\ Query(memory, 3).accessible = "kAvailable"
  /\ Query(memory, 3).perms = "kReadable"
  /\ \A a \in ReturnAddrs \ {3} : ~ByteUnusable(Query(memory, a))
  /\ ~result.raddr.corrected
  /\ result.ret

\* ------------------------------------------------------------------------
\* Properties of the type hints and of the decoding context.
\* ------------------------------------------------------------------------

\* The hints of the list whose target address is pc, in list order.
HintsAt(pc) ==
  LET matching == SelectSeq(type_hints, LAMBDA h : h.target_addr = pc)
  IN [k \in 1 .. Len(matching) |-> matching[k].hint]

\* The hints applied with the i-th instruction, in the order applied.
HintsApplied(i) ==
  [k \in 1 .. applied[i].hints |-> applied[i].emitted[k + 1].v]

IsTypeHint(o) == o.op = "type_hint"

\* C17: the hints applied right after the semantics of the instruction at
\* pc are the hints of the sorted list whose target address is pc, each
\* once and in list order; no hint is applied anywhere else.
C17_HintsOfTheInstruction ==
  /\ \A i \in 1 .. Len(applied) :
       /\ IsSemantics(applied[i].emitted[1])
       /\ applied[i].emitted[1].v = applied[i].pc
       /\ \A k \in 1 .. applied[i].hints : IsTypeHint(applied[i].emitted[k + 1])
       /\ HintsApplied(i) = HintsAt(applied[i].pc)
       /\ CountOps(applied[i].emitted, IsTypeHint) = Len(HintsAt(applied[i].pc))
       /\ applied[i].taken # 0 =>
            CountOps(lifted_func[applied[i].taken], IsTypeHint) = 0
  /\ \A b \in 1 .. Len(lifted_func) : \A k \in 1 .. Len(lifted_func[b]) :
       IsTypeHint(lifted_func[b][k]) =>
         \E i \in 1 .. Len(applied) :
           /\ applied[i].from = b
           /\ type_hints[lifted_func[b][k].v].target_addr = applied[i].pc

\* The list holds a hint for another address between or beside two hints
\* for the second instruction, and the two were applied with it.
C17_Witness ==
  /\ Len(applied) = 2
  /\ Len(HintsAt(applied[2].pc)) = 2
  /\ Len(HintsAt(applied[1].pc)) = 0
  /\ Len(type_hints) = 3
  /\ HintsApplied(2) = HintsAt(applied[2].pc)
  /\ applied[2].hints = 2

\* The context of the block: the initial context with the assignments.
BlockContext ==
  [k \in DOMAIN CreateInitialContext \cup DOMAIN context_assignments |->
     IF k \in DOMAIN context_assignments THEN context_assignments[k]
     ELSE CreateInitialContext[k]]

\* C19: every instruction of a block is decoded under the same context, the
\* initial context of the architecture with every assigned key holding the
\* assigned value and every other key its initial value, whatever context
\* the decoder says follows an instruction.
C19_OneContextPerBlock ==
  /\ pc_ # "idle" => init_context = BlockContext
  /\ \A i \in 1 .. Len(contexts) : contexts[i].used = BlockContext
  /\ Len(contexts) = Len(decoded) + (IF decode_failed THEN 1 ELSE 0)

\* Two instructions were decoded in a block with an assignment, and the
\* decoder left another context after the first.
C19_Witness ==
  /\ Len(decoded) = 2 /\ Len(contexts) = 2
  /\ DOMAIN context_assignments = {"VLEReg"}
  /\ contexts[1].out # contexts[1].used
  /\ contexts[2].used = contexts[1].used

\* ------------------------------------------------------------------------
\* Properties of the block function's exit and entry.
\* ------------------------------------------------------------------------

\* The block's last instruction is unconditional and carries a Return
\* override.
EndsInReturn(u) ==
  last_override[u].kind = "Return" /\ ~last_override[u].cond

Positions(body, P(_)) == {k \in 1 .. Len(body) : P(body[k])}

IsLiftedCall(o) == o.op = "call" /\ o.dst = "lifted_func"
IsStateInit(o) == o.op = "state_init"
IsStoreSP(o) == o.op = "store" /\ o.dst = "SP"
IsAffine(o) == o.op = "store_native" /\ o.src = "stack_offset"
IsUnpack(o) == o.op = "unpack"
IsConstant(o) == o.op = "store_native" /\ o.src = "constant"
IsStoreEntryPC(o) == o.op = "store" /\ o.dst = "PC"
IsPack(o) == o.op = "pack"
IsDecision(o) == o.op = "condbr" /\ o.src = "should_return"
IsStateWrite(o) == IsStoreSP(o) \/ IsAffine(o) \/ IsUnpack(o)
                   \/ IsConstant(o) \/ IsStoreEntryPC(o)

\* C20: in the entry block of every block function there is one call of
\* the lifted function; before it the State is allocated with its default
\* entry state and then given the stack pointer, every affine stack
\* equality, every live variable at entry, every constant at entry and the
\* block's address as program counter; every live variable at exit is
\* packed after the call and before the branch on should_return.
C20_InitializedBeforeSemantics ==
  \A u \in DOMAIN bodies :
    LET body == bodies[u]
        ctx == block_contexts[u]
        calls_ == Positions(body, IsLiftedCall)
        inits == Positions(body, IsStateInit)
        decisions == Positions(body, IsDecision)
    IN /\ Cardinality(calls_) = 1
       /\ Cardinality(inits) = 1
       /\ Cardinality(decisions) = 1
       /\ \A c \in calls_ : \A i \in inits : \A d \in decisions :
            /\ i < c /\ c < d
            /\ \A k \in Positions(body, IsStateWrite) : i < k /\ k < c
            /\ \A k \in Positions(body, IsPack) : c < k /\ k < d
       /\ Cardinality(Positions(body, IsStoreSP)) = 1
       /\ Cardinality(Positions(body, IsAffine)) = ctx.affine_equalities
       /\ Cardinality(Positions(body, IsUnpack)) = ctx.live_at_entry
       /\ Cardinality(Positions(body, IsConstant)) = ctx.constants_at_entry
       /\ Cardinality(Positions(body, IsStoreEntryPC)) = 1
       /\ \A k \in Positions(body, IsStoreEntryPC) : body[k].v = cfg[u].addr
       /\ Cardinality(Positions(body, IsPack)) = ctx.live_at_exit

\* The block function of a block with an affine equality, a live variable
\* at entry, a constant and a live variable at exit has been built.
C20_Witness ==
  \E u \in DOMAIN bodies :
    /\ block_contexts[u].affine_equalities > 0
    /\ block_contexts[u].live_at_entry > 0
    /\ block_contexts[u].constants_at_entry > 0
    /\ block_contexts[u].live_at_exit > 0
    /\ Positions(bodies[u], IsPack) # {}
    /\ Positions(bodies[u], IsUnpack) # {}

\* ------------------------------------------------------------------------
\* Properties of a run of a block function.
\* ------------------------------------------------------------------------

\* The register an affine equality or a constant is about.
TargetReg(entry) == entry.target_value.oredered_locs[1].reg

\* C21: when the call of the lifted function is reached, the register of
\* every affine stack equality of the block context holds the symbolic
\* stack pointer plus the equality's offset.
C21_AffineRegistersHoldOffsets ==
  run_pc = "initialized" =>
    \A i \in 1 .. Len(stack_offsets) :
      run_state[TargetReg(stack_offsets[i])] =
        SymbolicStackPointerInitWithOffset(stack_offsets[i].stack_offset)

\* ------------------------------------------------------------------------
\* Properties of the names of block functions.
\* ------------------------------------------------------------------------

SameTriple(x, y) ==
  x.address = y.address /\ x.addr = y.addr /\ x.uid = y.uid

\* C22: two block functions declared for different triples (function
\* address, block address, block uid) have different names, and no block
\* function's name is the name of a lowlift function.
C22_NamesInjective ==
  \A i, j \in 1 .. Len(named) :
    /\ ~SameTriple(named[i], named[j]) => named[i].name # named[j].name
    /\ named[j].lowlift # <<>> => named[i].name # named[j].lowlift

\* Two block functions of one function have been declared whose block
\* address and uid give the same digits when written one after the other,
\* and their lowlift functions exist.
C22_Witness ==
  \E i, j \in 1 .. Len(named) :
    /\ named[i].address = named[j].address
    /\ ~SameTriple(named[i], named[j])
    /\ to_string(named[i].addr) \o to_string(named[i].uid)
         = to_string(named[j].addr) \o to_string(named[j].uid)
    /\ named[i].lowlift # <<>> /\ named[j].lowlift # <<>>

\* ------------------------------------------------------------------------
\* Properties of the annotations of block functions.
\* ------------------------------------------------------------------------

\* Every block of the function has been lifted.
LiftingCompleted == cur = 0 /\ lifted = DOMAIN cfg

\* The metadata the block function of block u is to carry.
MetadataOf(u) == [addr |-> cfg[u].addr, uid |-> u]

\* C23: once every block of the function has been lifted, every block
\* function of the module carries the address and the uid of its block as
\* metadata, and so does the function every dispatch case calls.
C23_CompletedFunctionsAnnotated ==
  LiftingCompleted =>
    /\ \A i \in 1 .. Len(functions) :
         functions[i].kind = "bb" =>
           functions[i].metadata = MetadataOf(functions[i].uid)
    /\ \A u \in DOMAIN switches : \A k \in 1 .. Len(switches[u].cases) :
         LET case == switches[u].cases[k]
         IN /\ case.call.callee \in 1 .. Len(functions)
            /\ functions[case.call.callee].kind = "bb"
            /\ functions[case.call.callee].metadata = MetadataOf(case.uid)

\* Every block has been lifted, a block function is the target of a
\* dispatch case, and a block's address differs from its uid.
C23_Witness ==
  /\ LiftingCompleted
  /\ \E u \in DOMAIN switches : Len(switches[u].cases) > 0
  /\ \E u \in DOMAIN cfg : cfg[u].addr # u
  /\ \E i \in 1 .. Len(functions) :
       functions[i].kind = "bb" /\ functions[i].metadata # NoMetadata

\* ------------------------------------------------------------------------
\* Properties of two functions lifted concurrently.
\* ------------------------------------------------------------------------

\* C24: whatever the interleaving, what a thread has decoded when its loop
\* is over is something the lift of its block on its own can decode.
C24_SameAsLiftedAlone ==
  \A t \in DOMAIN thread_pc :
    thread_pc[t] = "done" =>
      thread_decoded[t] \in
        LiftAlone(thread_block[t].addr,
                  thread_block[t].addr + thread_block[t].size,
                  thread_context_max[t])

\* ------------------------------------------------------------------------
\* Properties of TypeProvider::TryGetCalledFunctionType.
\* ------------------------------------------------------------------------

\* The two lookups of the last call.
LastCallSite ==
  TryGetCalledFunctionTypeAt(type_provider, tp_query[1].function_address,
                             tp_query[1].from_inst)

LastFunction == TryGetFunctionType(type_provider, tp_query[1].to_address)

\* C25: the three-argument TryGetCalledFunctionType returns the call
\* site's declaration whenever the two-argument lookup yields one, else
\* the declaration TryGetFunctionType(to_address) yields, as a
\* CallableDecl, and nothing only when both lookups yield nothing.
C25_CallSiteThenFunction ==
  Len(tp_query) > 0 =>
    /\ LastCallSite.has_value => tp_result[1] = LastCallSite
    /\ ~LastCallSite.has_value /\ LastFunction.has_value =>
         tp_result[1] = Some(LastFunction.value.callable)
    /\ ~tp_result[1].has_value <=>
         ~LastCallSite.has_value /\ ~LastFunction.has_value

\* A call for which both lookups yield a declaration has returned the call
\* site's.
C25_Witness ==
  /\ Len(tp_query) > 0
  /\ LastCallSite.has_value /\ LastFunction.has_value
  /\ tp_result[1].value.declared = "call_site"

\* The lifted function executed a Return override when it ran.
ReturnOverrideExecuted ==
  /\ run_override.override.kind = "Return"
  /\ run_override.cond => run_taken

\* What the flag, the exit and the steps of a run have to be.
ShouldReturnFlagAndExit ==
  /\ run_pc = "initialized" => ~run_should_return
  /\ run_pc \in {"called", "noreturn", "left"} =>
       (run_should_return <=> ReturnOverrideExecuted)
  /\ run_pc = "left" =>
       /\ run_exit = "return" <=> run_should_return
       /\ ~run_should_return =>
            run_exit = IF Dispatch(run_switch, run_next_pc) = 0
                       THEN "invalid_successor" ELSE "successor"

\* A flag that is set is still set after the step.
FlagStaysSet ==
  (run_pc \in {"initialized", "called"} /\ run_should_return)
    => run_should_return'

\* C27: should_return is false when the lifted function is called, is true
\* after the call exactly when the lifted function executed a Return
\* override, and once true stays true; the block function returns exactly
\* when the flag is true, whatever next_pc holds, and dispatches on next_pc
\* otherwise.
C27_ShouldReturnDecidesExit ==
  /\ []ShouldReturnFlagAndExit
  /\ [][FlagStaysSet]_vars

\* A run whose lifted function executed a Return override has returned
\* although next_pc held the address of a successor of the switch.
C27_Witness ==
  /\ run_pc = "left" /\ run_should_return /\ run_exit = "return"
  /\ ReturnOverrideExecuted
  /\ Dispatch(run_switch, run_next_pc) # 0

\* ------------------------------------------------------------------------
\* Properties of Jump and Misc overrides, and of the steps of the loop.
\* ------------------------------------------------------------------------

\* The step lifts an instruction whose override is a Jump or a Misc.
LiftsJumpOrMisc ==
  /\ pc_ = "lift" /\ pc_' = "decode"
  /\ Len(applied') = Len(applied) + 1
  /\ applied'[Len(applied')].override.kind \in {"Jump", "Misc"}

\* C28: lifting an instruction whose override is a Jump or a Misc, with
\* stop or without, leaves the function, the block lifting goes on in and
\* ended_on_terminal as lifting it with no override does, and the loop is
\* not ended.
C28_JumpMiscAsNoOverride ==
  [][LiftsJumpOrMisc =>
       /\ lifted_func' = LiftedInstruction(NoOverride).f
       /\ bb' = LiftedInstruction(NoOverride).block
       /\ ended_on_terminal' = FALSE]_vars

\* An instruction with a Misc override with stop was lifted and the loop
\* went on to decode another instruction.
C28_Witness ==
  \E i \in 1 .. Len(applied) :
    /\ applied[i].override.kind = "Misc" /\ applied[i].override.stop
    /\ applied[i].ret
    /\ Len(decoded) > i

\* What lifting the i-th instruction appended to the block it was lifted
\* into is the instruction's semantics, then type hints only, then neither.
EmittedInOrder(i) ==
  LET e == applied[i].emitted
      n == applied[i].hints
  IN /\ n >= 0 /\ Len(e) >= 1 + n
     /\ IsSemantics(e[1]) /\ e[1].v = applied[i].pc
     /\ \A k \in 2 .. Len(e) :
          /\ ~IsSemantics(e[k])
          /\ IsTypeHint(e[k]) <=> k <= 1 + n
     /\ n = Len(HintsAt(applied[i].pc))

\* C29: every decoded instruction has advanced reached_addr by its length
\* before anything of it is lifted; its semantics are appended first, then
\* the type hints of its address, then what its override emits; and one
\* override has been queried per decoded instruction, for that
\* instruction's address, once the instruction is lifted.
C29_StepsInOrder ==
  /\ reached_addr = block_def.addr + SumLen(decoded)
  /\ Len(applied) = Len(decoded) - (IF pc_ = "lift" THEN 1 ELSE 0)
  /\ pc_ = "lift" =>
       /\ Len(decoded) > 0
       /\ inst = decoded[Len(decoded)]
       /\ reached_addr = inst.pc + inst.len
       /\ \A b \in 1 .. Len(lifted_func) : SemanticsAt(lifted_func[b], inst.pc) = 0
  /\ \A i \in 1 .. Len(applied) :
       /\ i <= Len(decoded)
       /\ applied[i].pc = decoded[i].pc
       /\ i > 1 => decoded[i].pc = decoded[i - 1].pc + decoded[i - 1].len
       /\ EmittedInOrder(i)

\* An instruction with a type hint and a Call override has been lifted, and
\* another instruction after it.
C29_Witness ==
  \E i \in 1 .. Len(applied) :
    /\ applied[i].hints > 0
    /\ applied[i].override.kind = "Call" /\ ~applied[i].cond
    /\ Len(applied[i].emitted) > 1 + applied[i].hints
    /\ Len(applied) > i

\* A successful iteration: the loop is still being executed after a step
\* that changed it.
SuccessfulIteration ==
  loop_pc = "loop" /\ loop_pc' = "loop" /\ loopVars' # loopVars

\* reached_addr is larger after a successful iteration.
ReachedAddrIncreases ==
  SuccessfulIteration => loop_reached_addr' > loop_reached_addr

\* C30: the decode loop of a block terminates whatever the ByteProvider and
\* the decoder answer: reached_addr is strictly larger after every iteration
\* whose decoding succeeded, the loop runs at most block_def.size iterations,
\* and LiftInstructionsIntoLiftedFunction leaves the loop.
C30_DecodeLoopTerminates ==
  /\ [][ReachedAddrIncreases]_vars
  /\ [](loop_pc \in {"loop", "done"} => loop_iterations <= loop_block.size)
  /\ <>(loop_pc = "done")

\* The four bytes at the nominal fall-through address are available,
\* readable and executable.
MarkerBytesReadableExecutable ==
  \A a \in ReturnAddrs :
    /\ Query(marker_memory, a).accessible = "kAvailable"
    /\ Query(marker_memory, a).perms \in
         {"kReadableExecutable", "kReadableWritableExecutable"}

\* The big-endian word of the four bytes has bits 31..30 (the top two bits
\* of its first byte) and bits 24..22 (the lowest bit of its first byte and
\* the top two bits of its second) equal to 0.
MarkerBitsClear ==
  LET pc == CallInst.branch_not_taken_pc
      first == Query(marker_memory, pc).byte
      second == Query(marker_memory, pc + 1).byte
  IN /\ first \div 64 = 0
     /\ first % 2 = 0 /\ second \div 64 = 0

\* C31: on SPARC, with the four bytes at the nominal fall-through address
\* readable and executable, the address returned and the return-pc value are
\* both 4 more than the nominal ones if and only if bits 31..30 and bits
\* 24..22 of the big-endian word of the bytes are 0, and both are the nominal
\* ones otherwise; off SPARC no byte is queried and nothing is corrected.
C31_CorrectedIffMarkerBits ==
  marker_result.kind = "pair" =>
    LET pc == CallInst.branch_not_taken_pc
        got == marker_result.pair
    IN /\ ~marker_sparc =>
            marker_result.queries = 0 /\ got.addr = pc /\ got.val = pc
       /\ (marker_sparc /\ MarkerBytesReadableExecutable) =>
            IF MarkerBitsClear
            THEN got.addr = pc + 4 /\ got.val = pc + 4
            ELSE got.addr = pc /\ got.val = pc

\* The calls of the call intrinsic the i-th override emitted.
IntrinsicCallsOf(i) ==
  {k \in 1 .. Len(OverrideOps(i)) : IsIntrinsicCall(OverrideOps(i)[k])}

\* C32: for a Call override one call of the call intrinsic is emitted; its
\* program-counter argument is the constant made of the override's
\* target_address when there is one and else the value just loaded from
\* NEXT_PC, and its memory and state arguments are the memory and state
\* arguments of the function the block belongs to.
C32_CallIntrinsicArguments ==
  \A i \in 1 .. Len(applied) :
    applied[i].override.kind = "Call" =>
      LET ops == OverrideOps(i)
      IN /\ Cardinality(IntrinsicCallsOf(i)) = 1
         /\ \A k \in IntrinsicCallsOf(i) :
              /\ ops[k].args.memory = ArgValue("arg", "kMemoryPointerArgNum", Unknown)
              /\ ops[k].args.state = ArgValue("arg", "kStatePointerArgNum", Unknown)
              /\ IF applied[i].override.has_target
                 THEN ops[k].args.pc =
                        ArgValue("const", "target_address",
                                 applied[i].override.target_address)
                 ELSE /\ ops[k].args.pc = ArgValue("load", "NEXT_PC", Unknown)
                      /\ k > 1
                      /\ ops[k - 1].op = "load" /\ ops[k - 1].src = "NEXT_PC"

\* A block has been lifted in which one instruction had a Call override with
\* a target address and a later one a Call override without.
C32_Witness ==
  /\ pc_ = "done" /\ Len(applied) >= 2
  /\ applied[1].override.kind = "Call" /\ applied[1].override.has_target
  /\ applied[2].override.kind = "Call" /\ ~applied[2].override.has_target
  /\ Cardinality(IntrinsicCallsOf(2)) = 1

\* The block function of the lifter cached for uid u.
BlockFunctionOf(u) == lifters[bb_lifters[u]].bb_func

\* The forwarding block of a case calls the successor's block function with
\* the arguments of the block function of u, all of them and in order, as a
\* tail call, and returns what the call returns.
ForwardsOwnArguments(u, case) ==
  LET caller == BlockFunctionOf(u)
      call == case.call
  IN /\ case.uid \in DOMAIN bb_lifters
     /\ call.callee = BlockFunctionOf(case.uid)
     /\ call.tail /\ case.returns_call
     /\ Len(call.args) = Len(functions[caller].params)
     /\ \A i \in 1 .. Len(call.args) :
          call.args[i] = [fn |-> caller, arg |-> i]
     /\ Len(call.args) = Len(functions[call.callee].params)
     /\ functions[call.callee].params = functions[caller].params

\* C33: every forwarding block tail-calls the successor's block function
\* with exactly the arguments of the calling block function, in order, and
\* returns the call's result; every block function of the FunctionDecl has
\* the same parameters, those of a lifted function and one pointer per
\* variable in scope, so the arguments match the callee's parameters.
C33_ForwardsOwnArguments ==
  /\ \A u \in DOMAIN switches :
       \A k \in 1 .. Len(switches[u].cases) :
         ForwardsOwnArguments(u, switches[u].cases[k])
  /\ \A f \in 1 .. Len(functions) :
       functions[f].kind = "bb" =>
         Len(functions[f].params) = 3 + in_scope_variables

\* A function with a variable in scope has been lifted, and the block
\* function of one block forwards its four arguments to that of another.
C33_Witness ==
  /\ in_scope_variables = 1
  /\ lifted = DOMAIN cfg
  /\ \E u \in DOMAIN switches :
       \E k \in 1 .. Len(switches[u].cases) :
         /\ switches[u].cases[k].uid # u
         /\ Len(switches[u].cases[k].call.args) = 4

\* The i-th parameter is stack-resident and has not one location, or its
\* offset lies outside the frame of maximum_depth bytes.
UnrepresentableParam(i) ==
  /\ \E k \in 1 .. Len(bb_params[i].oredered_locs) :
       bb_params[i].oredered_locs[k].mem
  /\ \/ Len(bb_params[i].oredered_locs) # 1
     \/ bb_params[i].oredered_locs[1].mem_offset < 0
     \/ bb_params[i].oredered_locs[1].mem_offset >= maximum_depth

C35_NotEqualNegatesEqual ==
  spec_compared.kind = "compared" =>
    /\ spec_compared.eq <=>
         (spec_handles[spec_compared.a] = spec_handles[spec_compared.b])
    /\ spec_compared.ne <=> ~spec_compared.eq

\* The candidate uses of the function before the run.
CandidateUses == EnumeratePossibleEntityUsages(fn_is_declaration, fn_insts)

\* C36: a run erases no instruction that still has a use: an instruction is
\* erased only if it was the operand of a rewritten use and, all rewrites
\* done, it has no use left; a candidate use whose address has no entity
\* keeps its operand; and for a declaration or a function without a
\* candidate use the function is unchanged and all analyses are preserved.
C36_ErasesOnlyUnused ==
  pass_out.kind = "ran" =>
    /\ \A j \in DOMAIN pass_out.erased :
         /\ pass_out.erased[j] = 0
         /\ j \in pass_out.to_erase
         /\ UsesOf(pass_out.insts, DOMAIN pass_out.erased, j) = {}
         /\ \E n \in DOMAIN CandidateUses :
              /\ fn_insts[CandidateUses[n].inst]
                   .operands[CandidateUses[n].operand].kind = "inst"
              /\ fn_insts[CandidateUses[n].inst]
                   .operands[CandidateUses[n].operand].ref = j
              /\ pass_out.insts[CandidateUses[n].inst]
                   .operands[CandidateUses[n].operand].kind = "entity"
    /\ \A n \in DOMAIN CandidateUses :
         CandidateUses[n].xref.address \notin entity_addrs =>
           pass_out.insts[CandidateUses[n].inst]
               .operands[CandidateUses[n].operand]
             = fn_insts[CandidateUses[n].inst]
                 .operands[CandidateUses[n].operand]
    /\ (fn_is_declaration \/ CandidateUses = <<>>) =>
         /\ pass_out.insts = fn_insts
         /\ pass_out.erased = <<>>
         /\ pass_out.preserved = "all"

\* The first instruction was the operand of both operands of the second,
\* both uses were rewritten and the first instruction was erased, while a
\* run over another function left a use without an entity alone.
C36_Witness ==
  /\ pass_out.kind = "ran"
  /\ Len(fn_insts) = 2
  /\ Len(fn_insts[2].operands) = 2
  /\ \A k \in 1 .. 2 :
       /\ fn_insts[2].operands[k].kind = "inst"
       /\ pass_out.insts[2].operands[k].kind = "entity"
  /\ DOMAIN pass_out.erased = {1}
  /\ \E k \in DOMAIN fn_insts[1].operands :
       /\ fn_insts[1].operands[k].kind = "const"
       /\ IsPossibleEntityUsage(fn_insts[1].operands[k].xref)
       /\ fn_insts[1].operands[k].xref.address \notin entity_addrs
       /\ pass_out.insts[1].operands[k] = fn_insts[1].operands[k]

\* The operand uses of the function, in instruction and operand order.
OperandUses ==
  {u \in (1 .. Len(fn_insts)) \X (1 .. MaxOperands) :
     /\ u[2] <= Len(fn_insts[u[1]].operands)
     /\ fn_insts[u[1]].operands[u[2]].kind # "null"}

\* The cross-reference of an operand use passes the tests of the claim.
Qualifies(u) ==
  LET ra == TryResolveReference(fn_insts, fn_insts[u[1]].operands[u[2]])
  IN /\ ra.is_valid
     /\ ~ra.references_return_address
     /\ ~ra.references_stack_pointer
     /\ \/ ra.references_entity
        \/ ra.references_global_value
        \/ ra.references_program_counter

\* C37: EnumeratePossibleEntityUsages returns exactly the operand uses whose
\* resolved cross-reference is valid, references neither the return address
\* nor the stack pointer and references an entity, a global value or the
\* program counter, each once with its cross-reference, in instruction and
\* operand order; for a declaration it returns the empty list.
C37_EnumeratesQualifyingUses ==
  pass_out.kind = "uses" =>
    LET out == pass_out.uses
    IN /\ fn_is_declaration => out = <<>>
       /\ {<<out[n].inst, out[n].operand>> : n \in DOMAIN out}
            = {u \in OperandUses : Qualifies(u)}
       /\ \A n \in DOMAIN out :
            out[n].xref =
              TryResolveReference(
                fn_insts, fn_insts[out[n].inst].operands[out[n].operand])
       /\ \A a, b \in DOMAIN out :
            a < b =>
              \/ out[a].inst < out[b].inst
              \/ /\ out[a].inst = out[b].inst
                 /\ out[a].operand < out[b].operand

\* Two uses were returned out of a function that also has an operand
\* relative to the stack pointer and a null operand.
C37_Witness ==
  /\ pass_out.kind = "uses"
  /\ Len(pass_out.uses) = 2
  /\ \E u \in OperandUses :
       TryResolveReference(fn_insts, fn_insts[u[1]].operands[u[2]])
         .references_stack_pointer
  /\ \E i \in DOMAIN fn_insts : \E k \in DOMAIN fn_insts[i].operands :
       fn_insts[i].operands[k].kind = "null"

\* The functions with an instruction that has an operand flagged.
FunctionsUsing(flag) ==
  {mod_insts[n].fn : n \in {m \in DOMAIN mod_insts : mod_insts[m][flag]}}

\* C38: a run adds to AnvillStackPointers the number of distinct functions
\* with an instruction that uses the stack pointer global, and to
\* AnvillPCPointers the same for the program counter global; it leaves the
\* module as it was and reports all analyses preserved.
C38_CountsExposingFunctions ==
  /\ [](collector_out.kind = "ran" =>
         /\ stats.AnvillStackPointers
              = collector_out.before.AnvillStackPointers
                  + Cardinality(FunctionsUsing("uses_sp"))
         /\ stats.AnvillPCPointers
              = collector_out.before.AnvillPCPointers
                  + Cardinality(FunctionsUsing("uses_pc"))
         /\ collector_out.preserved = "all")
  /\ [][RunCollector => UNCHANGED <<mod_insts, mod_globals>>]_vars

\* A second run over a module in which one function uses the stack pointer
\* global in two instructions and the global has a user that is not an
\* instruction.
C38_Witness ==
  /\ collector_out.kind = "ran"
  /\ collector_out.runs = 2
  /\ Len(mod_insts) = 2
  /\ mod_insts[1].fn = mod_insts[2].fn
  /\ mod_insts[1].uses_sp /\ mod_insts[2].uses_sp
  /\ mod_globals.sp.const_users = 1
  /\ stats.AnvillStackPointers = 2

\* The top bit of a bit pattern.
SignBit(x) == x \div 2 ^ (BoundBits - 1)

\* The number a bit pattern stands for in two's complement.
TwosComplement(x) == x - SignBit(x) * 2 ^ BoundBits

\* C39: lessThanOrEqual(lhs, rhs) is the signed comparison when isSigned is
\* set and the unsigned comparison otherwise, and the two modes answer
\* differently exactly when the sign bits of lhs and rhs differ.
C39_SignedOrUnsignedCompare ==
  cmp_result.kind = "done" =>
    /\ cmp_result.value <=>
         IF isSigned
         THEN TwosComplement(cmp_lhs) <= TwosComplement(cmp_rhs)
         ELSE cmp_lhs <= cmp_rhs
    /\ (cmp_result.value # cmp_result.other_mode) <=>
         (SignBit(cmp_lhs) # SignBit(cmp_rhs))

\* A signed comparison of a negative lhs with a non-negative rhs of smaller
\* bit pattern, answered TRUE.
C39_Witness ==
  /\ cmp_result.kind = "done"
  /\ isSigned
  /\ SignBit(cmp_lhs) = 1
  /\ SignBit(cmp_rhs) = 0
  /\ cmp_result.value
  /\ ~cmp_result.other_mode

====
